---- MODULE Spec2Model ----
(***************************************************************************)
(* Restart recovery of the storage manager (src/sm/restart.cpp):           *)
(* restart_m::recover and its three passes (Log Analysis, REDO, UNDO), in  *)
(* serial mode and in concurrent mode (restart_thread_t), run over a       *)
(* recovery log that is drawn from a bounded family of logs.               *)
(*                                                                         *)
(* An LSN is a natural number, lsn_t::null is 0.  A log is a sequence of   *)
(* log records in increasing LSN order; every record carries its LSN.      *)
(***************************************************************************)
EXTENDS Integers, Sequences, FiniteSets, TLC

\* ------------------------------------------------------------------ bounds

\* longest free tail of log records that follows the master checkpoint
MaxTail == 2

\* ------------------------------------------------------------- basic values

\* lsn_t::null
NullLsn == 0

\* tid_t::null
NullTid == 0

Min(a, b) == IF a < b THEN a ELSE b

Max(a, b) == IF a > b THEN a ELSE b

\* the least element of a non-empty set of numbers
SetMin(S) == CHOOSE x \in S : \A y \in S : x <= y

\* all sequences over S of length at most n
RECURSIVE SeqsUpTo(_, _)
SeqsUpTo(S, n) ==
    IF n = 0 THEN {<<>>}
    ELSE LET shorter == SeqsUpTo(S, n - 1)
         IN  shorter \cup {Append(s, x) : s \in {t \in shorter : Len(t) = n - 1}, x \in S}

\* ------------------------------------------- smlevel_0::operating_mode values

t_not_started == "t_not_started"

t_in_analysis == "t_in_analysis"

\* a REDO phase that leaves the mode of Analysis in place
RedoInAnalysisMode == "t_in_analysis"

t_in_redo == "t_in_redo"

t_in_undo == "t_in_undo"

t_forward_processing == "t_forward_processing"

\* ------------------------------------------------------------- log records

\* A log record: the header fields restart.cpp reads (logrec_t accessors).
\*   cat   the category bits: "redo", "undo", "cpsn", "ssx", "multi"
\*   prev  xid_prev(): the previous record of the transaction, or, in a
\*         compensation record, the undo-next LSN
\*   lsns  the LSN payload (chkpt_begin: <<last mount lsn>>,
\*         chkpt_end: <<begin_chkpt, min_rec_lsn, min_xct_lsn>>)
\*   brec  chkpt_bf_tab entries [pid, rec_lsn]
\*   xrec  chkpt_xct_tab entries [tid, state, last_lsn, first_lsn, undo_nxt],
\*         xct_end_group entries [tid]
\*   devs  chkpt_dev_tab / mount / dismount volume ids
LogRec(l, ty, t, p, p2, pv, c) ==
    [lsn |-> l, type |-> ty, tid |-> t, pid |-> p, pid2 |-> p2, prev |-> pv,
     cat |-> c, lsns |-> <<>>, brec |-> {}, xrec |-> {}, devs |-> {}]

is_redo(r) == "redo" \in r.cat

is_undo(r) == "undo" \in r.cat

is_cpsn(r) == "cpsn" \in r.cat

is_single_sys_xct(r) == "ssx" \in r.cat

is_multi_page(r) == "multi" \in r.cat

is_skip(r) == r.type = "t_skip"

null_pid(r) == r.pid = 0

\* redoable, has a pid, and is not compensated
is_page_update(r) == is_redo(r) /\ ~is_cpsn(r) /\ ~null_pid(r)

is_page_allocate(r) == r.type \in {"t_alloc_a_page", "t_alloc_consecutive_pages"}

is_page_deallocate(r) == r.type \in {"t_dealloc_a_page", "t_page_set_to_be_deleted"}

\* the record types of the big case of analysis_pass's switch
UpdateTypes ==
    {"t_compensate", "t_alloc_a_page", "t_alloc_consecutive_pages", "t_dealloc_a_page",
     "t_store_operation", "t_page_set_to_be_deleted", "t_page_img_format",
     "t_btree_norec_alloc", "t_btree_insert", "t_btree_insert_nonghost", "t_btree_update",
     "t_btree_overwrite", "t_btree_ghost_mark", "t_btree_ghost_reclaim",
     "t_btree_ghost_reserve", "t_btree_foster_adopt", "t_btree_foster_merge",
     "t_btree_foster_rebalance", "t_btree_foster_rebalance_norec", "t_btree_foster_deadopt"}

\* ---------------------------------------------------------- the log family
\* The logs recovery is run on are written by a run of the system before the
\* crash.  A log is described by a sequence of symbols; BuildLog turns it
\* into records with LSNs 1, 2, ... and fills the xid_prev chains and the
\* contents of the checkpoint records from the run it describes.

GenTids == {1, 2}

GenPages == {1, 2}

\* what the writer knows while it appends: per page the LSN that first dirtied
\* it, per transaction its state and LSNs, the last begin-checkpoint LSN, and
\* which tables the checkpoint in progress still owes: a checkpoint that
\* began with dirty pages writes a buffer table, one that began with active
\* transactions writes a transaction table; the LSN of the last mount or
\* dismount record and the devices that are mounted
InitCtx ==
    [dirty |-> [p \in GenPages |-> NullLsn],
     x     |-> [t \in GenTids |-> [st |-> "none", first |-> NullLsn, last |-> NullLsn,
                                   undo |-> NullLsn]],
     begin |-> NullLsn,
     owes  |-> {},
     mount |-> NullLsn,
     devs  |-> {},
     ok    |-> TRUE]

SymTid(sym) == IF sym \in {"u1", "e1", "c1"} THEN 1 ELSE IF sym \in {"u2", "e2"} THEN 2 ELSE NullTid

SymPid(sym) ==
    IF sym \in {"u1", "c1", "d1", "a1", "f1", "n12", "r12"} THEN 1 ELSE IF sym \in {"u2", "f2"} THEN 2 ELSE 0

\* the first LSN that dirtied a page still dirty, or the begin-checkpoint LSN
CtxMinRecLsn(ctx) ==
    LET ds == {ctx.dirty[p] : p \in {q \in GenPages : ctx.dirty[q] # NullLsn}}
    IN  IF ds = {} THEN ctx.begin ELSE SetMin(ds)

\* the first LSN of the oldest active transaction, or the begin-checkpoint LSN
CtxMinXctLsn(ctx) ==
    LET fs == {ctx.x[t].first : t \in {u \in GenTids : ctx.x[u].st = "active"}}
    IN  IF fs = {} THEN ctx.begin ELSE SetMin(fs)

\* the record the writer appends for a symbol at LSN l
SymRec(sym, l, ctx, acc) ==
    LET t == SymTid(sym)
        p == SymPid(sym)
    IN  CASE sym \in {"u1", "u2"} ->
                LogRec(l, "t_btree_insert", t, p, 0, ctx.x[t].last, {"redo", "undo"})
          [] sym \in {"e1", "e2"} ->
                LogRec(l, "t_xct_end", t, 0, 0, ctx.x[t].last, {})
          [] sym = "c1" ->
                \* a compensation record of an interrupted rollback: redo-only, its
                \* xid_prev is the undo-next LSN (the record before the undone one)
                LogRec(l, "t_btree_ghost_mark", t, p, 0,
                       IF ctx.x[t].undo = NullLsn THEN NullLsn ELSE acc[ctx.x[t].undo].prev,
                       {"redo", "cpsn"})
          [] sym \in {"f1", "f2"} ->
                LogRec(l, "t_page_img_format", NullTid, p, 0, NullLsn, {"redo", "ssx"})
          [] sym = "d1" ->
                LogRec(l, "t_dealloc_a_page", NullTid, p, 0, NullLsn, {"redo", "ssx"})
          [] sym = "a1" ->
                LogRec(l, "t_alloc_a_page", NullTid, p, 0, NullLsn, {"redo", "ssx"})
          [] sym = "n12" ->
                \* page 1 gets the new foster child page 2
                LogRec(l, "t_btree_norec_alloc", NullTid, p, 2, NullLsn, {"redo", "ssx", "multi"})
          [] sym = "r12" ->
                \* records move from page 1 to page 2
                LogRec(l, "t_btree_foster_rebalance", NullTid, p, 2, NullLsn,
                       {"redo", "ssx", "multi"})
          [] sym = "cb" ->
                [LogRec(l, "t_chkpt_begin", NullTid, 0, 0, NullLsn, {})
                    EXCEPT !.lsns = <<ctx.mount>>]
          [] sym = "dv" ->
                [LogRec(l, "t_chkpt_dev_tab", NullTid, 0, 0, NullLsn, {})
                    EXCEPT !.devs = ctx.devs]
          [] sym = "mv" ->
                \* device 1 is mounted; xid_prev is the mount record before this one
                [LogRec(l, "t_mount_vol", NullTid, 0, 0, ctx.mount, {"redo"})
                    EXCEPT !.devs = {1}]
          [] sym = "dm" ->
                [LogRec(l, "t_dismount_vol", NullTid, 0, 0, ctx.mount, {"redo"})
                    EXCEPT !.devs = {1}]
          [] sym = "bf" ->
                [LogRec(l, "t_chkpt_bf_tab", NullTid, 0, 0, NullLsn, {})
                    EXCEPT !.brec = {[pid |-> q, rec_lsn |-> ctx.dirty[q]] :
                                        q \in {q2 \in GenPages : ctx.dirty[q2] # NullLsn}}]
          [] sym = "xt" ->
                [LogRec(l, "t_chkpt_xct_tab", NullTid, 0, 0, NullLsn, {})
                    EXCEPT !.xrec = {[tid |-> u, state |-> "xct_active",
                                      last_lsn |-> ctx.x[u].last,
                                      first_lsn |-> ctx.x[u].first,
                                      undo_nxt |-> ctx.x[u].undo] :
                                        u \in {u2 \in GenTids : ctx.x[u2].st = "active"}}]
          [] sym = "ce" ->
                [LogRec(l, "t_chkpt_end", NullTid, 0, 0, NullLsn, {})
                    EXCEPT !.lsns = <<ctx.begin, CtxMinRecLsn(ctx), CtxMinXctLsn(ctx)>>]
          [] OTHER ->
                LogRec(l, "t_comment", NullTid, 0, 0, NullLsn, {})

\* what the writer knows after it appended the record of a symbol at LSN l
SymCtx(sym, l, ctx, acc) ==
    LET t == SymTid(sym)
        p == SymPid(sym)
        x == ctx.x
    IN  CASE sym \in {"u1", "u2"} ->
                [ctx EXCEPT !.ok = @ /\ x[t].st # "ended",
                            !.dirty[p] = IF @ = NullLsn THEN l ELSE @,
                            !.x[t] = [st |-> "active",
                                      first |-> IF x[t].st = "none" THEN l ELSE x[t].first,
                                      last |-> l, undo |-> l]]
          [] sym \in {"e1", "e2"} ->
                [ctx EXCEPT !.ok = @ /\ x[t].st = "active",
                            !.x[t].st = "ended", !.x[t].last = l]
          [] sym = "c1" ->
                [ctx EXCEPT !.ok = @ /\ x[t].st = "active" /\ x[t].undo # NullLsn,
                            !.dirty[p] = IF @ = NullLsn THEN l ELSE @,
                            !.x[t].last = l,
                            !.x[t].undo = IF x[t].undo = NullLsn THEN NullLsn
                                          ELSE acc[x[t].undo].prev]
          [] sym \in {"f1", "f2"} ->
                [ctx EXCEPT !.dirty[p] = IF @ = NullLsn THEN l ELSE @]
          [] sym = "d1" ->
                \* a deallocated page leaves the buffer pool
                [ctx EXCEPT !.dirty[p] = NullLsn]
          [] sym \in {"n12", "r12"} ->
                [ctx EXCEPT !.dirty = [q \in GenPages |-> IF @[q] = NullLsn THEN l ELSE @[q]]]
          [] sym = "cb" ->
                [ctx EXCEPT !.begin = l,
                            !.owes = (IF \E q \in GenPages : ctx.dirty[q] # NullLsn
                                      THEN {"bf"} ELSE {})
                                     \cup (IF \E u \in GenTids : x[u].st = "active"
                                           THEN {"xt"} ELSE {})]
          [] sym \in {"bf", "xt"} ->
                [ctx EXCEPT !.ok = @ /\ ctx.begin # NullLsn, !.owes = @ \ {sym}]
          [] sym = "dv" ->
                [ctx EXCEPT !.ok = @ /\ ctx.begin # NullLsn]
          [] sym = "mv" ->
                [ctx EXCEPT !.mount = l, !.devs = {1}]
          [] sym = "dm" ->
                [ctx EXCEPT !.mount = l, !.devs = {}]
          [] sym = "ce" ->
                [ctx EXCEPT !.ok = @ /\ ctx.begin # NullLsn /\ ctx.owes = {}]
          [] OTHER -> ctx

RECURSIVE BuildFrom(_, _, _)
BuildFrom(syms, ctx, acc) ==
    IF syms = <<>> \/ ~ctx.ok THEN [log |-> acc, ok |-> ctx.ok]
    ELSE LET l == Len(acc) + 1
         IN  BuildFrom(Tail(syms), SymCtx(Head(syms), l, ctx, acc),
                       Append(acc, SymRec(Head(syms), l, ctx, acc)))

BuildLog(syms) == BuildFrom(syms, InitCtx, <<>>)

\* records written before the master checkpoint began
Pres == {<<>>, <<"u1">>}

\* the master checkpoint and what other threads logged while it was taken
Heads ==
    {<<"cb", "ce">>,
     <<"cb", "bf", "xt", "ce">>,
     <<"cb", "bf", "u1", "xt", "ce">>,
     <<"cb", "bf", "xt", "u1", "ce">>,
     <<"cb", "u2", "bf", "xt", "ce">>}

TailSyms == {"u1", "u2", "e1", "c1", "f2"}

\* a later checkpoint, complete or cut short by the crash, that the master
\* record does not point to
Laters ==
    {<<"cb">>, <<"cb", "bf", "xt">>, <<"cb", "bf", "xt", "ce">>, <<"cb", "bf", "xt", "u2", "ce">>}

\* page 1 is deallocated after an update, and allocated and formatted again
ReuseScripts ==
    {<<"cb", "ce", "u1", "d1">>,
     <<"cb", "ce", "u1", "d1", "a1", "f1">>,
     <<"cb", "ce", "u1", "d1", "a1", "f1", "u1">>,
     <<"u1", "cb", "bf", "xt", "ce", "d1", "a1", "f1">>}

\* system transactions whose one record names two pages
MultiPageScripts ==
    {<<"cb", "ce", "u1", "n12">>,
     <<"cb", "ce", "u1", "n12", "u2">>,
     <<"u1", "cb", "bf", "xt", "ce", "u2", "r12">>,
     <<"u1", "cb", "bf", "u2", "xt", "ce", "r12", "u2">>,
     <<"cb", "ce", "u1", "d1", "a1", "f1", "n12">>}

\* device 1 is mounted or dismounted before the master checkpoint
MountScripts ==
    {<<"mv", "cb", "dv", "ce", "u1">>,
     <<"u1", "mv", "cb", "bf", "dv", "xt", "ce">>,
     <<"mv", "u1", "dm", "cb", "bf", "xt", "ce", "u1">>}

\* pages that are allocated in the log, and a page that is deallocated while
\* another page stays dirty
AllocScripts ==
    {<<"cb", "ce", "a1", "f1">>,
     <<"cb", "ce", "a1", "f2">>,
     <<"cb", "ce", "u1", "d1", "f2">>,
     <<"u1", "cb", "bf", "xt", "ce", "a1", "f1">>,
     <<"u1", "cb", "bf", "xt", "ce", "d1", "f2">>}

Scripts ==
    ReuseScripts
    \cup MultiPageScripts
    \cup MountScripts
    \cup AllocScripts
    \cup
    {pre \o head \o tail : pre \in Pres, head \in Heads, tail \in SeqsUpTo(TailSyms, MaxTail)}
    \cup {pre \o head \o tail \o later :
            pre \in Pres, head \in Heads, tail \in SeqsUpTo(TailSyms, MaxTail - 1),
            later \in Laters}

GenLogs == {b.log : b \in {c \in {BuildLog(s) : s \in Scripts} : c.ok}}

\* the LSN of the first begin-checkpoint record of a log
MasterOf(l) ==
    LET bs == {i \in 1..Len(l) : l[i].type = "t_chkpt_begin"}
    IN  IF bs = {} THEN NullLsn ELSE l[SetMin(bs)].lsn

\* log_m::curr_lsn(): the LSN the next inserted record will get
CurrLsn(l) == IF l = <<>> THEN 1 ELSE l[Len(l)].lsn + 1

\* ---------------------------------------------------------- buffer pool
\* The buffer pool is a function from the page ids in its hash table to
\* their control blocks.

\* bf_tree_m::register_and_mark: put the page in the hash table if it is not
\* there and mark it in_doubt and used; count it if it was not in_doubt; an
\* already in_doubt page keeps the earliest rec_lsn and the latest write LSN
register_and_mark(s, pid, lsn) ==
    IF pid \in DOMAIN s.bf
    THEN LET cb == s.bf[pid]
         IN  [s EXCEPT !.bf[pid] = [cb EXCEPT !.in_doubt = TRUE, !.used = TRUE,
                                       !.rec_lsn = IF cb.in_doubt THEN Min(cb.rec_lsn, lsn)
                                                   ELSE lsn,
                                       !.dependency_lsn = IF cb.in_doubt
                                                          THEN Max(cb.dependency_lsn, lsn)
                                                          ELSE lsn],
                        !.in_doubt_count = IF cb.in_doubt THEN @ ELSE @ + 1]
    ELSE [s EXCEPT !.bf = [q \in DOMAIN s.bf \cup {pid} |->
                              IF q = pid
                              THEN [in_doubt |-> TRUE, dirty |-> FALSE, used |-> TRUE,
                                    rec_lsn |-> lsn, dependency_lsn |-> lsn,
                                    page_lsn |-> NullLsn, loaded |-> FALSE]
                              ELSE s.bf[q]],
                    !.in_doubt_count = @ + 1]

\* bf_tree_m::clear_in_doubt: drop the in_doubt flag; a page that is no longer
\* used also leaves the hash table
clear_in_doubt(bfp, pid, still_used) ==
    IF still_used
    THEN [bfp EXCEPT ![pid] = [@ EXCEPT !.in_doubt = FALSE, !.used = TRUE]]
    ELSE [q \in DOMAIN bfp \ {pid} |-> bfp[q]]

\* a switch to dirty that leaves the in_doubt flag set
DirtyKeepsInDoubt(bfp, pid) ==
    [bfp EXCEPT ![pid] = [@ EXCEPT !.dirty = TRUE, !.used = TRUE]]

\* bf_tree_m::in_doubt_to_dirty
in_doubt_to_dirty(bfp, pid) ==
    [bfp EXCEPT ![pid] = [@ EXCEPT !.in_doubt = FALSE, !.dirty = TRUE, !.used = TRUE]]

\* the in_doubt pages of a buffer pool
InDoubtPages(bfp) == {q \in DOMAIN bfp : bfp[q].in_doubt}

DirtyPages(bfp) == {q \in DOMAIN bfp : bfp[q].dirty}

\* ------------------------------------------------------ transaction table
\* The transaction table is a function from the tids in it to descriptors.

\* xct_t::new_xct
new_xct(xt, tid, st, last, undo, sys, ssx) ==
    [u \in DOMAIN xt \cup {tid} |->
        IF u = tid
        THEN [state |-> st, last_lsn |-> last, first_lsn |-> NullLsn, undo_nxt |-> undo,
              sys |-> sys, single_sys |-> ssx, doomed |-> TRUE]
        ELSE xt[u]]

\* xct_t::destroy_xct
destroy_xct(xt, tid) == [u \in DOMAIN xt \ {tid} |-> xt[u]]

\* xct_t::num_active_xcts: the number of descriptors in the table
num_active_xcts(xt) == Cardinality(DOMAIN xt)

\* the doomed transactions: the ones Analysis left active
Doomed(xt) == {u \in DOMAIN xt : xt[u].state = "xct_active" /\ xt[u].doomed}

\* ------------------------------------------------------------ Log Analysis
\* The state of analysis_pass is a record: its out-parameters, its locals,
\* the buffer pool and the transaction table.  fatal is "" until a
\* W_FATAL_MSG ends recovery.

Fatal(s, why) == [s EXCEPT !.fatal = why]

\* the record at an LSN (log_m::fetch)
LogAt(l, lsn) == l[CHOOSE i \in 1..Len(l) : l[i].lsn = lsn]

\* an alloc/dealloc that takes one off in_doubt_count whether or not the page
\* was in_doubt
ClearAlwaysCounts(s, r) ==
    IF r.pid \in DOMAIN s.bf /\ s.bf[r.pid].in_doubt
    THEN [s EXCEPT !.bf = clear_in_doubt(s.bf, r.pid, is_page_allocate(r)),
                   !.in_doubt_count = @ - 1]
    ELSE [s EXCEPT !.in_doubt_count = @ - 1]

\* alloc/dealloc of a page: clear the in_doubt flag of the page if it has one
ClearForAlloc(s, r) ==
    IF r.pid \in DOMAIN s.bf /\ s.bf[r.pid].in_doubt
    THEN [s EXCEPT !.bf = clear_in_doubt(s.bf, r.pid, is_page_allocate(r)),
                   !.in_doubt_count = @ - 1]
    ELSE s

\* an Analysis that registers only the first page of a system transaction
SsxFirstPageOnly(s, r) ==
    LET tid == 0 - r.lsn
        s1 == [s EXCEPT !.xct = new_xct(s.xct, tid, "xct_ended", r.lsn, NullLsn, TRUE, TRUE)]
    IN  IF is_page_allocate(r) \/ is_page_deallocate(r) THEN ClearForAlloc(s1, r)
        ELSE IF is_skip(r) THEN s1
        ELSE IF null_pid(r) THEN Fatal(s1, "System transaction without a page number")
        ELSE register_and_mark(s1, r.pid, r.lsn)

\* a system transaction fused to a single log record
AnalysisSsx(s, r) ==
    LET tid == 0 - r.lsn
        s1 == [s EXCEPT !.xct = new_xct(s.xct, tid, "xct_active", r.lsn, NullLsn, TRUE, TRUE)]
        s2 == IF is_page_allocate(r) \/ is_page_deallocate(r) THEN ClearForAlloc(s1, r)
              ELSE IF ~is_skip(r)
                   THEN IF ~null_pid(r)
                        THEN LET s3 == register_and_mark(s1, r.pid, r.lsn)
                             IN  IF is_multi_page(r)
                                 THEN IF r.pid2 = 0
                                      THEN Fatal(s3, "Page # = 0 from a multi-record system transaction log record")
                                      ELSE register_and_mark(s3, r.pid2, r.lsn)
                                 ELSE s3
                        ELSE Fatal(s1, "System transaction without a page number")
                   ELSE s1
    IN  IF s2.fatal # "" THEN s2 ELSE [s2 EXCEPT !.xct[tid].state = "xct_ended"]

\* an Analysis that notes the last LSN of a transaction only when it inserts it
XctKeepsLastLsn(s, r, max_lsn) ==
    IF r.tid # NullTid /\ r.tid \notin DOMAIN s.xct
       /\ r.type \notin {"t_comment", "t_skip", "t_max_logrec"}
    THEN [s EXCEPT !.xct = [new_xct(s.xct, r.tid, "xct_active", r.lsn, r.prev, FALSE, FALSE)
                               EXCEPT ![r.tid].first_lsn = max_lsn]]
    ELSE s

\* a scan in which a record of a transaction that is in the table makes the
\* transaction active again
XctReactivates(s, r, max_lsn) ==
    IF r.tid # NullTid /\ r.tid \notin DOMAIN s.xct
       /\ r.type \notin {"t_comment", "t_skip", "t_max_logrec"}
    THEN [s EXCEPT !.xct = [new_xct(s.xct, r.tid, "xct_active", r.lsn, r.prev, FALSE, FALSE)
                               EXCEPT ![r.tid].first_lsn = max_lsn]]
    ELSE IF r.tid \in DOMAIN s.xct
         THEN [s EXCEPT !.xct[r.tid].last_lsn = r.lsn, !.xct[r.tid].state = "xct_active"]
         ELSE s

\* insert the transaction of a record into the transaction table if it is not
\* there, else note the record as its last one
AnalysisXct(s, r, max_lsn) ==
    IF r.tid # NullTid /\ r.tid \notin DOMAIN s.xct
       /\ r.type \notin {"t_comment", "t_skip", "t_max_logrec"}
    THEN [s EXCEPT !.xct = [new_xct(s.xct, r.tid, "xct_active", r.lsn, r.prev, FALSE, FALSE)
                               EXCEPT ![r.tid].first_lsn = max_lsn]]
    ELSE IF r.tid \in DOMAIN s.xct THEN [s EXCEPT !.xct[r.tid].last_lsn = r.lsn]
         ELSE s

RECURSIVE RegisterAll(_, _)
RegisterAll(s, entries) ==
    IF entries = {} \/ s.fatal # "" THEN s
    ELSE LET e == CHOOSE x \in entries : TRUE
         IN  IF e.pid = 0 THEN Fatal(s, "Page # = 0 from a page in t_chkpt_bf_tab log record")
             ELSE RegisterAll(register_and_mark(s, e.pid, e.rec_lsn), entries \ {e})

\* t_chkpt_bf_tab of the master checkpoint
AnalysisChkptBfTab(s, r) ==
    IF s.num_chkpt_end_handled = 0 THEN RegisterAll(s, r.brec) ELSE s

\* a t_chkpt_xct_tab that inserts every entry that is not ended, also over a
\* transaction that is in the table already
ChkptXctsOverwrite(s, r) ==
    LET new == {e \in r.xrec : e.state # "xct_ended"}
        ent(u) == CHOOSE e \in new : e.tid = u
    IN  [s EXCEPT !.xct = [u \in DOMAIN s.xct \cup {e.tid : e \in new} |->
                              IF u \notin {e.tid : e \in new} THEN s.xct[u]
                              ELSE [state |-> "xct_active", last_lsn |-> ent(u).last_lsn,
                                    first_lsn |-> ent(u).first_lsn,
                                    undo_nxt |-> ent(u).undo_nxt,
                                    sys |-> FALSE, single_sys |-> FALSE, doomed |-> TRUE]]]

\* the entries of a t_chkpt_xct_tab record: an entry whose transaction is not
\* in the table yet is inserted with the first_lsn of the entry; an entry
\* whose transaction is in the table already changes nothing
InsertChkptXcts(s, r) ==
    LET new == {e \in r.xrec : e.tid \notin DOMAIN s.xct /\ e.state # "xct_ended"}
        ent(u) == CHOOSE e \in new : e.tid = u
    IN  [s EXCEPT !.xct = [u \in DOMAIN s.xct \cup {e.tid : e \in new} |->
                              IF u \in DOMAIN s.xct THEN s.xct[u]
                              ELSE [state |-> "xct_active", last_lsn |-> ent(u).last_lsn,
                                    first_lsn |-> ent(u).first_lsn,
                                    undo_nxt |-> ent(u).undo_nxt,
                                    sys |-> FALSE, single_sys |-> FALSE, doomed |-> TRUE]]]

\* t_chkpt_xct_tab: only the one of the master checkpoint counts
AnalysisChkptXctTab(s, r) ==
    IF s.num_chkpt_end_handled = 0 THEN InsertChkptXcts(s, r) ELSE s

\* io_m::mount: the devices are mounted; outside recovery the mount is
\* logged, which needs logging to be enabled
io_mount(s, devs) ==
    [s EXCEPT !.mounted = @ \cup devs,
              !.log = IF s.logging_enabled /\ devs # {}
                      THEN Append(@, [LogRec(CurrLsn(@), "t_mount_vol", NullTid, 0, 0, NullLsn,
                                             {"redo"}) EXCEPT !.devs = devs])
                      ELSE @]

\* io_m::dismount
io_dismount(s, devs) ==
    [s EXCEPT !.mounted = @ \ devs,
              !.log = IF s.logging_enabled /\ devs # {}
                      THEN Append(@, [LogRec(CurrLsn(@), "t_dismount_vol", NullTid, 0, 0,
                                             NullLsn, {"redo"}) EXCEPT !.devs = devs])
                      ELSE @]

\* t_chkpt_dev_tab of the master checkpoint: mount every device it lists
AnalysisChkptDevTab(s, r) ==
    IF s.num_chkpt_end_handled = 0
    THEN [io_mount(s, r.devs) EXCEPT !.mount = @ \/ r.devs # {}]
    ELSE s

\* t_mount_vol, t_dismount_vol: the record is redone (r.redo) when before
\* redo_lsn
AnalysisMount(s, r) ==
    IF r.lsn < s.redo_lsn
    THEN IF r.type = "t_mount_vol"
         THEN [s EXCEPT !.mounted = @ \cup r.devs, !.mount = TRUE]
         ELSE [s EXCEPT !.mounted = @ \ r.devs]
    ELSE s

\* an Analysis that takes the end record of every checkpoint
ChkptEndOfEveryChkpt(s, r, master) ==
    LET s2 == [s EXCEPT !.begin_chkpt = r.lsns[1], !.redo_lsn = r.lsns[2],
                        !.undo_lsn = r.lsns[3]]
    IN  IF master # r.lsns[1]
        THEN Fatal(s2, "Master from 'end checkpoint' is different from caller of Log Analysis")
        ELSE [s2 EXCEPT !.num_chkpt_end_handled = @ + 1]

\* t_chkpt_end: the first one gives begin_chkpt, redo_lsn and undo_lsn
AnalysisChkptEnd(s, r, master) ==
    LET s1 == IF s.num_chkpt_end_handled = 0
              THEN LET s2 == [s EXCEPT !.begin_chkpt = r.lsns[1], !.redo_lsn = r.lsns[2],
                                       !.undo_lsn = r.lsns[3]]
                   IN  IF master # r.lsns[1]
                       THEN Fatal(s2, "Master from 'end checkpoint' is different from caller of Log Analysis")
                       ELSE s2
              ELSE s
    IN  IF s1.fatal # "" THEN s1 ELSE [s1 EXCEPT !.num_chkpt_end_handled = @ + 1]

\* t_xct_end, t_xct_abort, t_xct_freeing_space: the transaction has ended
AnalysisXctEnd(s, r) ==
    IF r.tid \notin DOMAIN s.xct THEN Fatal(s, "no transaction for an end record")
    ELSE [s EXCEPT !.xct[r.tid].state = "xct_ended"]

\* t_xct_end_group: every listed transaction has ended
AnalysisXctEndGroup(s, r) ==
    IF \E e \in r.xrec : e.tid \notin DOMAIN s.xct
    THEN Fatal(s, "transaction of an end group is not in the table")
    ELSE [s EXCEPT !.xct = [u \in DOMAIN s.xct |->
                               IF u \in {e.tid : e \in r.xrec}
                               THEN [s.xct[u] EXCEPT !.state = "xct_ended"]
                               ELSE s.xct[u]]]

\* xd->set_undo_nxt of the transaction of a record
SetUndoNxt(s, r, lsn) ==
    IF r.tid \notin DOMAIN s.xct THEN Fatal(s, "no transaction for an update record")
    ELSE [s EXCEPT !.xct[r.tid].undo_nxt = lsn]

\* an Analysis that registers an updated page with the LSN the scan reads
\* next instead of the LSN of the record
UpdateRegistersNextLsn(s, r) ==
    LET s1 == IF is_page_update(r)
              THEN LET s2 == IF is_undo(r) THEN SetUndoNxt(s, r, r.lsn) ELSE s
                   IN  IF s2.fatal # "" THEN s2
                       ELSE IF is_page_allocate(r) \/ is_page_deallocate(r)
                            THEN ClearForAlloc(s2, r)
                            ELSE register_and_mark(s2, r.pid, r.lsn + 1)
              ELSE IF is_cpsn(r) /\ ~is_undo(r)
                   THEN LET s3 == SetUndoNxt(s, r, NullLsn)
                        IN  IF s3.fatal # "" \/ ~is_redo(r) \/ r.pid = 0 THEN s3
                            ELSE register_and_mark(s3, r.pid, r.lsn)
                   ELSE s
    IN  IF s1.fatal = "" /\ r.tid # NullTid /\ r.tid \in DOMAIN s1.xct
           /\ r.lsn < s1.xct[r.tid].first_lsn
        THEN [s1 EXCEPT !.xct[r.tid].first_lsn = r.lsn]
        ELSE s1

\* an Analysis that takes a compensation record as a record to undo: undo_nxt
\* becomes its LSN, whatever its flags
CpsnSetsUndoNxt(s, r) ==
    LET s1 == IF is_page_update(r)
              THEN LET s2 == IF is_undo(r) THEN SetUndoNxt(s, r, r.lsn) ELSE s
                   IN  IF s2.fatal # "" THEN s2
                       ELSE IF is_page_allocate(r) \/ is_page_deallocate(r)
                            THEN ClearForAlloc(s2, r)
                            ELSE register_and_mark(s2, r.pid, r.lsn)
              ELSE IF is_cpsn(r)
                   THEN LET s3 == SetUndoNxt(s, r, r.lsn)
                        IN  IF s3.fatal # "" \/ ~is_redo(r) \/ r.pid = 0 THEN s3
                            ELSE register_and_mark(s3, r.pid, r.lsn)
                   ELSE s
    IN  IF s1.fatal = "" /\ r.tid # NullTid /\ r.tid \in DOMAIN s1.xct
           /\ r.lsn < s1.xct[r.tid].first_lsn
        THEN [s1 EXCEPT !.xct[r.tid].first_lsn = r.lsn]
        ELSE s1

\* the update records: they tell which pages are in_doubt, what the
\* transaction has to undo next and what its first LSN is
AnalysisUpdate(s, r) ==
    LET s1 == IF is_page_update(r)
              THEN LET s2 == IF is_undo(r) THEN SetUndoNxt(s, r, r.lsn) ELSE s
                   IN  IF s2.fatal # "" THEN s2
                       ELSE IF is_page_allocate(r) \/ is_page_deallocate(r)
                            THEN ClearForAlloc(s2, r)
                            ELSE register_and_mark(s2, r.pid, r.lsn)
              ELSE IF is_cpsn(r)
                   THEN IF is_undo(r)
                        THEN Fatal(s, "Encounter undoable compensation record in Recovery log")
                        ELSE LET s3 == SetUndoNxt(s, r, NullLsn)
                             IN  IF s3.fatal # "" \/ ~is_redo(r) THEN s3
                                 ELSE IF r.pid = 0
                                      THEN Fatal(s3, "Page # = 0 from a page in compensation log record")
                                      ELSE register_and_mark(s3, r.pid, r.lsn)
                   ELSE IF r.type # "t_store_operation"
                        THEN Fatal(s, "Unexpected log record type")
                        ELSE s
    IN  IF s1.fatal = "" /\ r.tid # NullTid /\ r.tid \in DOMAIN s1.xct
           /\ r.lsn < s1.xct[r.tid].first_lsn
        THEN [s1 EXCEPT !.xct[r.tid].first_lsn = r.lsn]
        ELSE s1

\* the switch on the type of a record
AnalysisSwitch(s, r, master) ==
    CASE r.type = "t_chkpt_begin" -> s
      [] r.type = "t_chkpt_bf_tab" -> AnalysisChkptBfTab(s, r)
      [] r.type = "t_chkpt_xct_tab" -> AnalysisChkptXctTab(s, r)
      [] r.type = "t_chkpt_dev_tab" -> AnalysisChkptDevTab(s, r)
      [] r.type \in {"t_mount_vol", "t_dismount_vol"} -> AnalysisMount(s, r)
      [] r.type = "t_chkpt_end" -> AnalysisChkptEnd(s, r, master)
      [] r.type \in {"t_xct_freeing_space", "t_xct_abort", "t_xct_end"} -> AnalysisXctEnd(s, r)
      [] r.type = "t_xct_end_group" -> AnalysisXctEndGroup(s, r)
      [] r.type \in UpdateTypes -> AnalysisUpdate(s, r)
      [] r.type \in {"t_comment", "t_skip", "t_max_logrec"} -> s
      [] OTHER -> Fatal(s, "Unexpected log record type from default")

\* one turn of the scan loop of analysis_pass
AnalysisRecord(s, r, master, max_lsn) ==
    LET s0 == [s EXCEPT !.last_lsn = r.lsn]
    IN  IF is_single_sys_xct(r) THEN AnalysisSsx(s0, r)
        ELSE AnalysisSwitch(AnalysisXct(s0, r, max_lsn), r, master)

\* the scan loop from the i-th record of the log on
RECURSIVE AnalysisScan(_, _, _, _, _)
AnalysisScan(s, l, i, master, max_lsn) ==
    IF i > Len(l) \/ s.fatal # "" THEN s
    ELSE AnalysisScan(AnalysisRecord(s, l[i], master, max_lsn), l, i + 1, master, max_lsn)

\* mounts and dismounts between redo_lsn and the begin of the checkpoint are
\* taken back, following the chain of mount records
RECURSIVE ReplayMounts(_, _)
ReplayMounts(s, l) ==
    IF s.theLastMountLSNBeforeChkpt # NullLsn /\ s.theLastMountLSNBeforeChkpt > s.redo_lsn
    THEN LET r == LogAt(l, s.theLastMountLSNBeforeChkpt)
         IN  ReplayMounts(
                 IF r.type = "t_dismount_vol"
                 THEN [io_mount(s, r.devs) EXCEPT !.mount = TRUE,
                                                  !.theLastMountLSNBeforeChkpt = r.prev]
                 ELSE [io_dismount(s, r.devs) EXCEPT !.theLastMountLSNBeforeChkpt = r.prev],
                 l)
    ELSE s

\* a sweep that leaves the sentinel in commit_lsn when no transaction lowers it
SweepKeepsSentinel(s, serial, max_lsn) ==
    LET act == {u \in DOMAIN s.xct : s.xct[u].state = "xct_active"}
    IN  [s EXCEPT !.xct = [u \in act |-> [s.xct[u] EXCEPT !.first_lsn = NullLsn]],
                  !.heap = IF serial THEN act ELSE {},
                  !.commit_lsn = SetMin({s.xct[u].first_lsn : u \in act} \cup {s.commit_lsn})]

\* a sweep that leaves the ended transactions in the table
SweepKeepsEnded(s, serial, max_lsn) ==
    LET act == {u \in DOMAIN s.xct : s.xct[u].state = "xct_active"}
        low == SetMin({s.xct[u].first_lsn : u \in act} \cup {s.commit_lsn})
    IN  [s EXCEPT !.xct = [u \in DOMAIN s.xct |->
                              IF u \in act THEN [s.xct[u] EXCEPT !.first_lsn = NullLsn]
                              ELSE s.xct[u]],
                  !.heap = IF serial THEN act ELSE {},
                  !.commit_lsn = IF low = max_lsn THEN NullLsn ELSE low]

\* the sweep of the transaction table at the end of analysis_pass: ended
\* transactions are destroyed, commit_lsn becomes the least first_lsn of the
\* active ones, which lose their first_lsn and, in serial mode, enter the heap
AnalysisSweep(s, serial, max_lsn) ==
    LET act == {u \in DOMAIN s.xct : s.xct[u].state = "xct_active"}
        firsts == {s.xct[u].first_lsn : u \in act} \cup {s.commit_lsn}
        low == SetMin(firsts)
    IN  IF \E u \in DOMAIN s.xct : s.xct[u].state \notin {"xct_active", "xct_ended"}
        THEN Fatal(s, "Transaction in the traction table is not doomed in Log Analysis phase")
        ELSE [s EXCEPT !.xct = [u \in act |-> [s.xct[u] EXCEPT !.first_lsn = NullLsn]],
                       !.heap = IF serial THEN act ELSE {},
                       !.commit_lsn = IF low = max_lsn THEN NullLsn ELSE low]

\* an end of Analysis that leaves redo_lsn and undo_lsn as the checkpoint gave
\* them
FinishWithoutClamp(s, l, master, serial, max_lsn) ==
    IF s.redo_lsn = NullLsn THEN Fatal(s, "Missing redo_lsn at the end of Log Analysis phase")
    ELSE IF s.undo_lsn = NullLsn
    THEN Fatal(s, "Missing undo_lsn at the end of Log Analysis phase")
    ELSE AnalysisSweep(IF s.in_doubt_count # 0 THEN ReplayMounts(s, l) ELSE s, serial, max_lsn)

\* what analysis_pass does after the scan
AnalysisFinish(s, l, master, serial, max_lsn) ==
    IF s.redo_lsn = NullLsn THEN Fatal(s, "Missing redo_lsn at the end of Log Analysis phase")
    ELSE IF s.undo_lsn = NullLsn
    THEN Fatal(s, "Missing undo_lsn at the end of Log Analysis phase")
    ELSE LET s1 == [s EXCEPT !.redo_lsn = Min(@, master), !.undo_lsn = Min(@, master)]
             s2 == IF s1.in_doubt_count # 0 THEN ReplayMounts(s1, l) ELSE s1
         IN  AnalysisSweep(s2, serial, max_lsn)

\* the state analysis_pass starts from: the out-parameters as recover left
\* them, logging enabled; the log is filled in by analysis_pass
AnalysisStart ==
    [log |-> <<>>, logging_enabled |-> TRUE, bf |-> <<>>, xct |-> <<>>, heap |-> {},
     redo_lsn |-> NullLsn, undo_lsn |-> NullLsn, last_lsn |-> NullLsn,
     commit_lsn |-> NullLsn, in_doubt_count |-> 0, begin_chkpt |-> NullLsn,
     num_chkpt_end_handled |-> 0, mounted |-> {}, mount |-> FALSE,
     theLastMountLSNBeforeChkpt |-> NullLsn, fatal |-> ""]

\* the position of the record with the master LSN, 0 when there is none
MasterIdx(l, master) ==
    LET is == {i \in 1..Len(l) : l[i].lsn = master}
    IN  IF is = {} THEN 0 ELSE CHOOSE i \in is : TRUE

\* an Analysis that scans the log whatever the master LSN is
AlwaysAnalyze(master) == FALSE

\* a null master LSN: the engine starts for the first time, nothing to recover
NothingToAnalyze(master) == master = NullLsn

\* an Analysis that leaves logging as it found it
LoggingLeftOn(s) == s

\* AutoTurnOffLogging: logging is off while the guard lives
AutoTurnOffLogging(s) == [s EXCEPT !.logging_enabled = FALSE]

\* the body of analysis_pass, from the state start
AnalysisBody(start, l, master, serial) ==
    LET max_lsn == CurrLsn(l) + 1
        m == MasterIdx(l, master)
    IN  IF NothingToAnalyze(master) THEN start
        ELSE IF m = 0 \/ l[m].type # "t_chkpt_begin"
        THEN Fatal([start EXCEPT !.commit_lsn = max_lsn],
                   "First log record in Log Analysis is not a begin checkpoint log")
        ELSE LET s0 == [start EXCEPT !.commit_lsn = max_lsn,
                                     !.theLastMountLSNBeforeChkpt = l[m].lsns[1]]
                 s1 == AnalysisScan(s0, l, m + 1, master, max_lsn)
             IN  IF s1.fatal # "" THEN s1 ELSE AnalysisFinish(s1, l, master, serial, max_lsn)

\* restart_m::analysis_pass on a log: the guard turns logging off for the
\* whole pass and turns it on again on every return
analysis_pass(l, master, serial) ==
    [AnalysisBody(AutoTurnOffLogging([AnalysisStart EXCEPT !.log = l]), l, master, serial)
        EXCEPT !.logging_enabled = TRUE]

\* -------------------------------------------------------------------- REDO
\* The disk is a function from the pages it holds to [lsn, bad]: the page LSN
\* of the stored image, and whether its checksum is bad.

\* bf_tree_m::load_for_redo: read the page of an in_doubt control block
load_for_redo(bfp, dsk, pid) ==
    IF pid \in DOMAIN dsk
    THEN [bfp EXCEPT ![pid] = [@ EXCEPT !.page_lsn = dsk[pid].lsn, !.loaded = TRUE]]
    ELSE bfp

\* log_m::recover_single_page with the actual emlsn: the page is rebuilt from
\* its own log records up to emlsn
recover_single_page(bfp, pid, emlsn) ==
    [bfp EXCEPT ![pid] = [@ EXCEPT !.page_lsn = emlsn, !.loaded = TRUE]]

\* latch_acquire(LATCH_EX, WAIT_IMMEDIATE) and latch_release by the recovery
\* thread; held is the set of pages whose latch the thread holds
latch_acquire(s, pid) == [s EXCEPT !.held = @ \cup {pid}]

latch_release(s, pid) == [s EXCEPT !.held = @ \ {pid}]

\* the recovery thread reads or changes a page or its control block: bare
\* collects the pages it touched without holding their latch
Touch(s, pid) == IF pid \in s.held THEN s ELSE [s EXCEPT !.bare = @ \cup {pid}]

\* a REDO that applies no record
SkipRedo(s, r, pid, end_logscan_lsn) == s

\* a REDO that turns an in_doubt page dirty and leaves it the page LSN of its
\* disk image
RedoKeepsPageLsn(s, r, pid, end_logscan_lsn) ==
    IF s.bf[pid].in_doubt
    THEN [s EXCEPT !.bf = in_doubt_to_dirty(load_for_redo(s.bf, s.disk, pid), pid),
                   !.dirty_count = @ + 1]
    ELSE s

\* a test that has every record redone
RedoWhateverPageLsn(page_lsn, lsn) == TRUE

\* the record is redone if the last write to the page was before it
page_older(page_lsn, lsn) == page_lsn < lsn

\* a REDO that leaves a page it has in memory as it is
SkipLoadedPage(s, bf3, r, pid, end_logscan_lsn, was_in_doubt, virgin_page) == s

\* an in_doubt or dirty page meets a redoable record: redo it if the page is
\* older than the record
RedoOnLoadedPage(s, bf3, r, pid, end_logscan_lsn, was_in_doubt, virgin_page) ==
    IF page_older(bf3[pid].page_lsn, r.lsn)
    THEN [s EXCEPT !.applied = Append(@, [pid |-> pid, lsn |-> r.lsn]),
                   !.bf = LET bf4 == [bf3 EXCEPT ![pid].page_lsn = r.lsn,
                                                 ![pid].rec_lsn = IF was_in_doubt \/ virgin_page
                                                                  THEN Min(@, r.lsn) ELSE @]
                          IN  IF was_in_doubt THEN in_doubt_to_dirty(bf4, pid) ELSE bf4,
                   !.dirty_count = IF was_in_doubt THEN @ + 1 ELSE @]
    ELSE IF virgin_page
    THEN [s EXCEPT !.bf = LET bf4 == [bf3 EXCEPT ![pid].rec_lsn = r.lsn]
                          IN  IF was_in_doubt THEN in_doubt_to_dirty(bf4, pid) ELSE bf4,
                   !.dirty_count = IF was_in_doubt THEN @ + 1 ELSE @]
    ELSE IF bf3[pid].page_lsn >= end_logscan_lsn /\ bf3[pid].page_lsn # NullLsn
    THEN Fatal(latch_release(s, pid),
               "Page LSN > current recovery log LSN, page corruption detected in REDO phase")
    ELSE [s EXCEPT !.bf = IF bf3[pid].page_lsn # NullLsn
                          THEN [bf3 EXCEPT ![pid].page_lsn = @ + 1] ELSE bf3]

\* load_for_redo is called for a page
NoteLoad(s, pid) == [s EXCEPT !.loads = @ \cup {pid}]

\* the control block is in_doubt or dirty: the page is loaded if it is
\* in_doubt and not virgin. A load that fails releases the latch before the
\* error is looked at; after a bad checksum the page is repaired, read and
\* changed
RedoOnPage(s0, r, pid, end_logscan_lsn) ==
    LET cb0 == s0.bf[pid]
        virgin_page == r.type = "t_page_img_format"
                       \/ (r.type = "t_btree_norec_alloc" /\ pid # r.pid)
        must_load == cb0.in_doubt /\ ~virgin_page
    IN  IF must_load /\ pid \notin DOMAIN s0.disk
        THEN Fatal(NoteLoad(latch_release(s0, pid), pid),
                   "REDO phase, expected page does not exist on disk")
        ELSE IF must_load /\ s0.disk[pid].bad
        THEN RedoOnLoadedPage(NoteLoad(Touch(latch_release(s0, pid), pid), pid),
                              recover_single_page(s0.bf, pid, r.lsn),
                              r, pid, end_logscan_lsn, cb0.in_doubt, virgin_page)
        ELSE IF must_load
        THEN RedoOnLoadedPage(NoteLoad(Touch(s0, pid), pid),
                              load_for_redo(s0.bf, s0.disk, pid),
                              r, pid, end_logscan_lsn, cb0.in_doubt, virgin_page)
        ELSE RedoOnLoadedPage(Touch(s0, pid),
                              IF virgin_page THEN [s0.bf EXCEPT ![pid].page_lsn = NullLsn]
                              ELSE s0.bf,
                              r, pid, end_logscan_lsn, cb0.in_doubt, virgin_page)

\* a REDO that accepts every record on a control block with neither flag
CleanCbAccepts(s, r, pid) == s

\* the control block is in the hash table and neither in_doubt nor dirty
RedoOnCleanCb(s, r, pid) ==
    IF is_page_allocate(r) THEN s
    ELSE IF is_page_deallocate(r)
    THEN Fatal(latch_release(s, pid),
               "Deallocated page should not exist in hashtable in REDO phase")
    ELSE IF s.bf[pid].used
    THEN Fatal(latch_release(s, pid), "Incorrect in_doubt and dirty flags in REDO phase")
    ELSE s

\* restart_m::_redo_log_with_pid: the page of the record is looked up, its
\* latch is taken without waiting, the record is redone, and the latch is
\* released if the thread still holds it
redo_log_with_pid(s, r, pid, end_logscan_lsn) ==
    IF s.fatal # "" THEN s
    ELSE IF pid \in DOMAIN s.bf
    THEN IF pid \in s.user_held
         THEN Fatal(s, "REDO (redo_pass()): unable to EX latch a buffer pool page")
         ELSE CHOOSE out \in
                  {IF s2.fatal = "" /\ pid \in s2.held THEN latch_release(s2, pid) ELSE s2 :
                      s2 \in {IF s1.bf[pid].in_doubt \/ s1.bf[pid].dirty
                               THEN RedoOnPage(s1, r, pid, end_logscan_lsn)
                               ELSE RedoOnCleanCb(s1, r, pid) :
                                  s1 \in {latch_acquire(s, pid)}}} : TRUE
    ELSE IF ~is_page_deallocate(r)
    THEN Fatal(s, "Unable to find page in buffer pool hashtable during REDO phase")
    ELSE s

\* one turn of the scan loop of redo_log_pass
RedoRecord(s, r, end_logscan_lsn) ==
    IF ~is_redo(r) THEN s
    ELSE IF null_pid(r)
    THEN IF ~is_single_sys_xct(r) /\ r.tid # NullTid
         THEN IF r.tid \in DOMAIN s.xct /\ s.xct[r.tid].state # "xct_active"
              THEN Fatal(s, "REDO phase, no page transaction not in 'active' state - invalid")
              ELSE s
         ELSE IF ~is_single_sys_xct(r)
         THEN IF r.type = "t_mount_vol" THEN [s EXCEPT !.mounted = @ \cup r.devs]
              ELSE [s EXCEPT !.mounted = @ \ r.devs]
         ELSE s
    ELSE LET s1 == redo_log_with_pid(s, r, r.pid, end_logscan_lsn)
         IN  IF is_multi_page(r) THEN redo_log_with_pid(s1, r, r.pid2, end_logscan_lsn)
             ELSE s1

\* the scan loop of redo_log_pass from the i-th record of the log on; the
\* concurrent scan stops at the first record past end_logscan_lsn
RECURSIVE RedoScan(_, _, _, _, _)
RedoScan(s, l, i, end_logscan_lsn, serial) ==
    IF i > Len(l) \/ s.fatal # "" THEN s
    ELSE IF ~serial /\ l[i].lsn > end_logscan_lsn THEN s
    ELSE CHOOSE out \in {RedoScan(n, l, i + 1, end_logscan_lsn, serial) :
                             n \in {RedoRecord(s, l[i], end_logscan_lsn)}} : TRUE

\* the position of the first record at or after an LSN (log_i scan start)
ScanIdx(l, lsn) ==
    LET is == {i \in 1..Len(l) : l[i].lsn >= lsn}
    IN  IF is = {} THEN Len(l) + 1 ELSE SetMin(is)

\* a log-driven REDO that returns whatever the count of the pages it made dirty
RedoWithoutCount(s, l, redo_lsn, end_logscan_lsn, in_doubt_count, serial, redo_log) ==
    IF in_doubt_count = 0 THEN s
    ELSE RedoScan([s EXCEPT !.dirty_count = 0], l, ScanIdx(l, redo_lsn), end_logscan_lsn,
                  serial)

\* restart_m::redo_log_pass; s holds bf, xct, disk, mounted, dirty_count, fatal
redo_log_pass(s, l, redo_lsn, end_logscan_lsn, in_doubt_count, serial, redo_log) ==
    IF in_doubt_count = 0 THEN s
    ELSE IF ~redo_log
    THEN Fatal(s, "REDO phase, restart_m::redo_pass() is valid for log driven REDO operation")
    ELSE LET s1 == RedoScan([s EXCEPT !.dirty_count = 0], l, ScanIdx(l, redo_lsn),
                            end_logscan_lsn, serial)
         IN  IF s1.fatal # "" THEN s1
             ELSE IF in_doubt_count # s1.dirty_count
             THEN Fatal(s1, "Unexpected dirty page count at the end of REDO phase")
             ELSE s1

\* bf_tree_m::force_all: every dirty page is written to disk and is clean
force_all(bfp, dsk) ==
    [q \in DOMAIN dsk \cup DirtyPages(bfp) |->
        IF q \in DirtyPages(bfp) THEN [lsn |-> bfp[q].page_lsn, bad |-> FALSE] ELSE dsk[q]]

CleanAll(bfp) == [q \in DOMAIN bfp |-> [bfp[q] EXCEPT !.dirty = FALSE]]

\* restart_m::_redo_page_pass: every in_doubt page is loaded and rebuilt by
\* single-page recovery up to the last write Analysis saw for it
RedoPage(bfp, dsk, pid) ==
    LET emlsn == bfp[pid].dependency_lsn
        bf1 == load_for_redo(bfp, dsk, pid)
        bf2 == recover_single_page(bf1, pid, emlsn)
    IN  in_doubt_to_dirty([bf2 EXCEPT ![pid].rec_lsn = Min(@, emlsn)], pid)

\* a log_comment that inserts its record with or without a transaction
CommentWithoutXct(s, xd) ==
    [s EXCEPT !.log = Append(@, LogRec(CurrLsn(@), "t_comment", xd, 0, 0, NullLsn, {}))]

\* log_comment: a comment record is logged on behalf of the transaction xd
\* that is attached to the calling thread; with none attached (NullTid)
\* nothing is logged
log_comment(s, xd) ==
    IF xd = NullTid THEN s
    ELSE [s EXCEPT !.log = Append(@, LogRec(CurrLsn(@), "t_comment", xd, 0, 0, NullLsn, {}))]

\* the transaction attached to the recovery thread when a pass starts: none,
\* a pass attaches a transaction only to roll it back
AttachedXct == NullTid

\* restart_m::_redo_page_pass: every in_doubt page is rebuilt by single-page
\* recovery
redo_page_pass(s, in_doubt_count) ==
    IF in_doubt_count = 0 THEN s
    ELSE LET todo == InDoubtPages(s.bf)
             s1 == log_comment(s, AttachedXct)
             s2 == [s1 EXCEPT !.bf = [q \in DOMAIN s.bf |->
                                         IF q \in todo THEN RedoPage(s.bf, s.disk, q)[q]
                                         ELSE s.bf[q]],
                              !.loads = @ \cup todo]
         IN  \* the latch of every control block is taken without waiting,
             \* in_doubt or not; the blocks of the pages user transactions
             \* loaded come after those Analysis registered
             IF s.user_held # {}
             THEN Fatal(s2, "REDO (redo_page_pass()): unable to EX latch a buffer pool page ")
             ELSE s2

\* -------------------------------------------------------------------- UNDO

\* a page is changed under a new log record outside of REDO: it is fixed
\* (read from disk if the buffer pool does not hold it) and becomes dirty
UpdatePage(bfp, dsk, pid, lsn) ==
    IF pid \in DOMAIN bfp
    THEN [bfp EXCEPT ![pid] = [@ EXCEPT !.page_lsn = lsn, !.dirty = TRUE, !.used = TRUE,
                                        !.loaded = TRUE,
                                        !.rec_lsn = IF bfp[pid].dirty THEN @ ELSE lsn]]
    ELSE [q \in DOMAIN bfp \cup {pid} |->
             IF q = pid
             THEN [in_doubt |-> FALSE, dirty |-> TRUE, used |-> TRUE, rec_lsn |-> lsn,
                   dependency_lsn |-> NullLsn, page_lsn |-> lsn, loaded |-> TRUE]
             ELSE bfp[q]]

\* xct_t::rollback(save_pt): undo the records of the transaction from its
\* undo_nxt back to save_pt; each undone record is compensated by a redo-only
\* record whose undo-next is the record before the undone one
RECURSIVE rollback(_, _, _)
rollback(s, tid, save_pt) ==
    LET nxt == s.xct[tid].undo_nxt
    IN  IF nxt = NullLsn \/ ~(save_pt < nxt) THEN s
        ELSE LET r == LogAt(s.log, nxt)
                 lsn == CurrLsn(s.log)
             IN  IF is_undo(r)
                 THEN rollback([s EXCEPT !.log = Append(@, LogRec(lsn, "t_btree_ghost_mark", tid,
                                                                  r.pid, 0, r.prev,
                                                                  {"redo", "cpsn"})),
                                         !.bf = UpdatePage(@, s.disk, r.pid, lsn),
                                         !.xct[tid].last_lsn = lsn,
                                         !.xct[tid].undo_nxt = r.prev,
                                         !.undone = Append(@, nxt)], tid, save_pt)
                 ELSE rollback([s EXCEPT !.xct[tid].undo_nxt = r.prev], tid, save_pt)

\* xct_t::abort: roll everything back, log the end of the transaction
abort(s, tid) ==
    LET s1 == rollback(s, tid, NullLsn)
        lsn == CurrLsn(s1.log)
    IN  [s1 EXCEPT !.log = Append(@, LogRec(lsn, "t_xct_abort", tid, 0, 0,
                                            s1.xct[tid].last_lsn, {})),
                   !.xct[tid].last_lsn = lsn, !.xct[tid].state = "xct_ended"]

\* the heap of doomed transactions is ordered by undo_nxt, largest first
HeapFirst(s) == CHOOSE u \in s.heap : \A v \in s.heap : s.xct[v].undo_nxt <= s.xct[u].undo_nxt

HeapSecond(s) ==
    LET rest == s.heap \ {HeapFirst(s)}
    IN  CHOOSE u \in rest : \A v \in rest : s.xct[v].undo_nxt <= s.xct[u].undo_nxt

\* while more than one transaction has something to undo, the one with the
\* largest undo_nxt is rolled back to the undo_nxt of the second
\* a rollback loop that rolls the first transaction back completely
RollbackWhole(s) ==
    LET xd == HeapFirst(s)
    IN  IF s.xct[xd].sys THEN [s EXCEPT !.xct[xd].undo_nxt = NullLsn]
        ELSE rollback(s, xd, NullLsn)

\* one turn of the rollback loop: the first transaction of the heap is rolled
\* back to the undo_nxt of the second
RollbackFirst(s) ==
    LET xd == HeapFirst(s)
    IN  IF s.xct[xd].sys THEN [s EXCEPT !.xct[xd].undo_nxt = NullLsn]
        ELSE rollback(s, xd, s.xct[HeapSecond(s)].undo_nxt)

RECURSIVE UndoInterleave(_)
UndoInterleave(s) ==
    IF s.xct[HeapFirst(s)].undo_nxt = NullLsn THEN s ELSE UndoInterleave(RollbackFirst(s))

\* a drain that destroys the transactions without rolling them back
DestroyOnly(s) == [s EXCEPT !.xct = [u \in DOMAIN @ \ s.heap |-> @[u]], !.heap = {}]

\* a drain that stops after the first transaction
DrainFirstOnly(s) ==
    IF s.heap = {} THEN s
    ELSE LET xd == HeapFirst(s)
             s1 == abort(s, xd)
         IN  [s1 EXCEPT !.xct = destroy_xct(s1.xct, xd), !.heap = @ \ {xd}]

\* the heap is drained: every transaction is aborted and destroyed
RECURSIVE UndoDrain(_)
UndoDrain(s) ==
    IF s.heap = {} THEN s
    ELSE LET xd == HeapFirst(s)
             s1 == abort(s, xd)
         IN  UndoDrain([s1 EXCEPT !.xct = destroy_xct(s1.xct, xd), !.heap = @ \ {xd}])

\* log_m::flush_all as the passes use it: the whole log is forced to stable
\* storage before the call returns
flush_all(s) == [s EXCEPT !.durable_lsn = CurrLsn(s.log)]

\* restart_m::undo_reverse_pass; s holds log, bf, disk, xct, heap
undo_reverse_pass(s, serial) ==
    LET s0 == IF ~serial THEN [s EXCEPT !.heap = Doomed(s.xct)] ELSE s
    IN  IF s0.heap = {} THEN s0
        ELSE LET s1 == log_comment(s0, AttachedXct)
                 s2 == IF Cardinality(s1.heap) > 1 THEN UndoInterleave(s1) ELSE s1
             IN  flush_all(UndoDrain(s2))

\* the walk of _undo_txn_pass over the doomed transactions: one with
\* something to undo is aborted and destroyed (a system transaction only
\* loses its undo_nxt), one with nothing to undo is left in the table
RECURSIVE UndoTxnWalk(_, _)
UndoTxnWalk(s, todo) ==
    IF todo = {} THEN s
    ELSE LET curr == CHOOSE u \in todo : \A v \in todo : v <= u
         IN  IF s.xct[curr].undo_nxt # NullLsn
             THEN IF s.xct[curr].sys
                  THEN UndoTxnWalk([s EXCEPT !.xct[curr].undo_nxt = NullLsn], todo \ {curr})
                  ELSE LET s1 == abort(s, curr)
                       IN  UndoTxnWalk([s1 EXCEPT !.xct = destroy_xct(s1.xct, curr)],
                                       todo \ {curr})
             ELSE UndoTxnWalk(s, todo \ {curr})

\* restart_m::_undo_txn_pass; s holds log, bf, disk, xct and the published
\* commit_lsn (smlevel_0::commit_lsn)
undo_txn_pass(s) ==
    IF num_active_xcts(s.xct) = 0 THEN s
    ELSE LET s1 == log_comment(s, AttachedXct)
             s2 == UndoTxnWalk(s1, Doomed(s1.xct))
         IN  [flush_all(s2) EXCEPT !.commit_lsn = NullLsn]

\* ------------------------------------------------------- the inputs of a run

\* the scenario log: a checkpoint with empty tables whose end record carries
\* min_lsn as min_rec_lsn and min_xct_lsn, an insert of T1 on page 42 at LSN
\* 128 and, if with_end, the end of T1 at LSN 200
ScenarioLog(min_lsn, with_end) ==
    LET head == <<[LogRec(10, "t_chkpt_begin", NullTid, 0, 0, NullLsn, {})
                      EXCEPT !.lsns = <<NullLsn>>],
                  LogRec(20, "t_chkpt_bf_tab", NullTid, 0, 0, NullLsn, {}),
                  LogRec(30, "t_chkpt_xct_tab", NullTid, 0, 0, NullLsn, {}),
                  [LogRec(40, "t_chkpt_end", NullTid, 0, 0, NullLsn, {})
                      EXCEPT !.lsns = <<10, min_lsn, min_lsn>>],
                  LogRec(128, "t_btree_insert", 1, 42, 0, NullLsn, {"redo", "undo"})>>
    IN  IF with_end THEN Append(head, LogRec(200, "t_xct_end", 1, 0, 0, 128, {}))
        ELSE head

ScenarioLogs == {ScenarioLog(m, e) : m \in {NullLsn, 10}, e \in BOOLEAN}

\* the checkpoint with empty tables at LSN 10 that the page scenarios begin with
EmptyChkpt ==
    <<[LogRec(10, "t_chkpt_begin", NullTid, 0, 0, NullLsn, {}) EXCEPT !.lsns = <<NullLsn>>],
      LogRec(20, "t_chkpt_bf_tab", NullTid, 0, 0, NullLsn, {}),
      LogRec(30, "t_chkpt_xct_tab", NullTid, 0, 0, NullLsn, {}),
      [LogRec(40, "t_chkpt_end", NullTid, 0, 0, NullLsn, {}) EXCEPT !.lsns = <<10, 10, 10>>]>>

\* the virgin-page scenario: a page format of page 99 at LSN 100
VirginLog ==
    Append(EmptyChkpt, LogRec(100, "t_page_img_format", NullTid, 99, 0, NullLsn, {"redo", "ssx"}))

\* the multi-page scenario: btree_norec_alloc at LSN 300, page 1 gets the new
\* foster child page 2
NorecAllocLog ==
    Append(EmptyChkpt, LogRec(300, "t_btree_norec_alloc", NullTid, 1, 2, NullLsn,
                              {"redo", "ssx", "multi"}))

\* the compensation scenarios: T1 inserts on page 1 at LSN 100 and on page 2
\* at LSN 150; the log ends with a compensation record of T1 at LSN 200 that
\* is flagged undoable, or with a t_compensate record that is not redoable
UndoableCpsnLog ==
    EmptyChkpt \o
    <<LogRec(100, "t_btree_insert", 1, 1, 0, NullLsn, {"redo", "undo"}),
      LogRec(150, "t_btree_insert", 1, 2, 0, 100, {"redo", "undo"}),
      LogRec(200, "t_btree_ghost_mark", 1, 2, 0, 100, {"redo", "undo", "cpsn"})>>

PlainCpsnLog ==
    EmptyChkpt \o
    <<LogRec(100, "t_btree_insert", 1, 1, 0, NullLsn, {"redo", "undo"}),
      LogRec(150, "t_btree_insert", 1, 2, 0, 100, {"redo", "undo"}),
      LogRec(200, "t_compensate", 1, 0, 0, 100, {"cpsn"})>>

\* the checkpoint race: T1 and T2 are in flight when the checkpoint at LSN 10
\* reads the transaction table; T1 logs its end (or abort) record at LSN 25,
\* before the checkpoint writes, at LSN 30, the table it has read
RaceLog(end_type) ==
    <<LogRec(5, "t_btree_insert", 1, 1, 0, NullLsn, {"redo", "undo"}),
      LogRec(7, "t_btree_insert", 2, 2, 0, NullLsn, {"redo", "undo"}),
      [LogRec(10, "t_chkpt_begin", NullTid, 0, 0, NullLsn, {}) EXCEPT !.lsns = <<NullLsn>>],
      [LogRec(20, "t_chkpt_bf_tab", NullTid, 0, 0, NullLsn, {})
          EXCEPT !.brec = {[pid |-> 1, rec_lsn |-> 5], [pid |-> 2, rec_lsn |-> 7]}],
      LogRec(25, end_type, 1, 0, 0, 5, {}),
      [LogRec(30, "t_chkpt_xct_tab", NullTid, 0, 0, NullLsn, {})
          EXCEPT !.xrec = {[tid |-> 1, state |-> "xct_active", last_lsn |-> 5,
                            first_lsn |-> 5, undo_nxt |-> 5],
                           [tid |-> 2, state |-> "xct_active", last_lsn |-> 7,
                            first_lsn |-> 7, undo_nxt |-> 7]}],
      [LogRec(40, "t_chkpt_end", NullTid, 0, 0, NullLsn, {}) EXCEPT !.lsns = <<10, 5, 5>>]>>

RaceLogs == {RaceLog("t_xct_end"), RaceLog("t_xct_abort")}

\* the records of T1 that the scan may meet after a record that ended T1
LaterRecs ==
    {LogRec(130, "t_btree_insert", 1, 1, 0, 100, {"redo", "undo"}),
     LogRec(130, "t_btree_ghost_mark", 1, 1, 0, NullLsn, {"redo", "cpsn"}),
     LogRec(130, "t_xct_freeing_space", 1, 0, 0, 120, {}),
     LogRec(130, "t_xct_end", 1, 0, 0, 120, {}),
     LogRec(130, "t_xct_abort", 1, 0, 0, 120, {}),
     [LogRec(130, "t_xct_end_group", 1, 0, 0, 120, {})
         EXCEPT !.xrec = {[tid |-> 1, state |-> "xct_ended", last_lsn |-> 120,
                           first_lsn |-> 100, undo_nxt |-> NullLsn]}]}

\* T1 and T2 insert after the checkpoint, a record of type end_type ends T1 at
\* LSN 120 and one more record of T1 follows; a commit writes
\* t_xct_freeing_space and then t_xct_end
AfterEndLog(end_type, later) ==
    EmptyChkpt \o
    <<LogRec(100, "t_btree_insert", 1, 1, 0, NullLsn, {"redo", "undo"}),
      LogRec(110, "t_btree_insert", 2, 2, 0, NullLsn, {"redo", "undo"}),
      LogRec(120, end_type, 1, 0, 0, 100, {}),
      later>>

AfterEndLogs ==
    {AfterEndLog(e, r) : e \in {"t_xct_end", "t_xct_abort", "t_xct_freeing_space"},
                         r \in LaterRecs}

PageScenarioLogs ==
    {VirginLog, NorecAllocLog, UndoableCpsnLog, PlainCpsnLog} \cup RaceLogs \cup AfterEndLogs

\* logs of a system that never completed a checkpoint: the master LSN is null
NoMasterLogs == {<<>>, BuildLog(<<"u1">>).log}

\* the pages the redoable records of a log touch
PagesOf(l) ==
    {l[i].pid : i \in {j \in 1..Len(l) : is_redo(l[j]) /\ l[j].pid # 0}}
    \cup {l[i].pid2 : i \in {j \in 1..Len(l) : is_redo(l[j]) /\ is_multi_page(l[j])}}

\* the redoable records of a log that touch a page, by position
TouchesOf(l, p) ==
    {i \in 1..Len(l) : is_redo(l[i]) /\ (l[i].pid = p \/ (is_multi_page(l[i]) /\ l[i].pid2 = p))}

\* the disk the crash left behind: either no page was written since the log
\* began (a page born in the log is not on disk at all), or every page was
\* written after its last update
DiskOf(l, flushed, bad) ==
    LET first(p) == l[SetMin(TouchesOf(l, p))]
        last(p) == l[CHOOSE i \in TouchesOf(l, p) : \A j \in TouchesOf(l, p) : j <= i]
        on_disk == IF flushed THEN PagesOf(l)
                   ELSE {p \in PagesOf(l) :
                            /\ first(p).type # "t_page_img_format"
                            /\ ~(first(p).type = "t_btree_norec_alloc" /\ first(p).pid2 = p)}
    IN  [p \in on_disk |-> [lsn |-> IF flushed THEN last(p).lsn ELSE NullLsn,
                            bad |-> p \in bad]]

\* the logs whose page 1 may have a bad checksum on disk
CorruptLogs == {BuildLog(sc).log : sc \in ReuseScripts \cup MultiPageScripts \cup MountScripts}

\* the sets of pages whose disk image the crash may have left with a bad checksum
CorruptionsOf(l) == IF l \in CorruptLogs THEN {{}, {1}} ELSE {{}}

\* the pages a user transaction may have loaded and latched once the system
\* is open: page 3, which no log of the family names and is never in_doubt
UserPages == {3}

\* the sets of pages user transactions may hold latched while the restart
\* thread runs REDO; the scenarios run without user transactions
UserLatchesOf(l) ==
    IF l \in ScenarioLogs \cup PageScenarioLogs THEN {{}} ELSE SUBSET UserPages

\* a disk on which every page was written once, right after the first record
\* of the log that touches it
EarlyDisk(l) ==
    [p \in PagesOf(l) |-> [lsn |-> l[SetMin(TouchesOf(l, p))].lsn, bad |-> FALSE]]

\* a disk on which no page was written since the log began and the pages
\* that were allocated in the log are past the end of the volume
FreshDisk(l) ==
    LET old == DiskOf(l, FALSE, {})
    IN  [p \in {q \in DOMAIN old : ~is_page_allocate(l[SetMin(TouchesOf(l, q))])} |-> old[p]]

\* the disks the crash may have left behind for a log
DisksOf(l) ==
    {DiskOf(l, flushed, bad) : flushed \in BOOLEAN, bad \in CorruptionsOf(l)}
    \cup (IF l \in CorruptLogs THEN {EarlyDisk(l)} ELSE {})
    \cup {FreshDisk(l)}

\* the recovery policies that are implemented: serial (log-driven REDO,
\* reverse UNDO), and two concurrent ones
Configs ==
    {[serial |-> TRUE, redo_log |-> TRUE, undo_reverse |-> TRUE],
     [serial |-> FALSE, redo_log |-> FALSE, undo_reverse |-> FALSE],
     [serial |-> FALSE, redo_log |-> TRUE, undo_reverse |-> TRUE]}

\* ------------------------------------------------------------- checkpoints

\* what a checkpoint records of the buffer pool and the transaction table:
\* the pages that are dirty or in_doubt with their rec_lsn, and the
\* transactions that have a first LSN and have not ended
ChkptImage(bfp, xt) ==
    [brec |-> {[pid |-> q, rec_lsn |-> bfp[q].rec_lsn] :
                  q \in InDoubtPages(bfp) \cup DirtyPages(bfp)},
     xrec |-> {[tid |-> u, state |-> xt[u].state, last_lsn |-> xt[u].last_lsn,
                first_lsn |-> xt[u].first_lsn, undo_nxt |-> xt[u].undo_nxt] :
                  u \in {v \in DOMAIN xt : /\ ~xt[v].sys
                                           /\ xt[v].state # "xct_ended"
                                           /\ xt[v].first_lsn # NullLsn}}]

\* no checkpoint was taken yet
NoChkpt == [brec |-> {}, xrec |-> {}]

\* the log records of a checkpoint that begins at LSN l
ChkptRecs(img, l) ==
    LET recs == {e.rec_lsn : e \in img.brec}
        firsts == {e.first_lsn : e \in img.xrec}
    IN  <<[LogRec(l, "t_chkpt_begin", NullTid, 0, 0, NullLsn, {}) EXCEPT !.lsns = <<NullLsn>>],
          [LogRec(l + 1, "t_chkpt_bf_tab", NullTid, 0, 0, NullLsn, {}) EXCEPT !.brec = img.brec],
          [LogRec(l + 2, "t_chkpt_xct_tab", NullTid, 0, 0, NullLsn, {})
              EXCEPT !.xrec = img.xrec],
          [LogRec(l + 3, "t_chkpt_end", NullTid, 0, 0, NullLsn, {})
              EXCEPT !.lsns = <<l, IF recs = {} THEN l ELSE SetMin(recs),
                                IF firsts = {} THEN l ELSE SetMin(firsts)>>]>>

\* ---------------------------------------------------------------- the state

VARIABLES
    log,            \* the recovery log
    master,         \* the master LSN handed to recover
    disk,           \* the pages on disk
    cfg,            \* the recovery policy
    mode,           \* smlevel_0::operating_mode
    swizzling,      \* bf->is_swizzling_enabled()
    org_swizzling,  \* recover's org_swizzling_enabled
    pc,             \* where recover() is
    bf,             \* the buffer pool
    xct,            \* the transaction table
    heap,           \* the heap of doomed transactions of serial UNDO
    redo_lsn, undo_lsn, last_lsn, commit_lsn, in_doubt_count,  \* recover's outputs
    xct_count,      \* recover's xct_count
    mounted,        \* the mounted devices
    sm,             \* what the caller published in smlevel_0 after recover
    wpc,            \* where the restart thread is
    working,        \* restart_thread_t::working
    chkpts,         \* how many times chkpt->synch_take() ran
    trace,          \* the phases and checkpoints that ran, in order
    fatal,          \* the message of the W_FATAL_MSG that ended the run, or ""
    crash_disk,     \* the disk as the crash left it
    chkpt_img,      \* what the latest checkpoint of this run recorded
    restarted,      \* the system went down after a recovery and came up again
    prev_final,     \* the pages and transactions the recovery before the restart left
    undone,         \* the LSNs of the records UNDO has undone, in the order it undid them
    durable_lsn,    \* log->durable_lsn(): the log is on stable storage below this LSN
    holder,         \* tatas_lock::_holder: the thread that owns the lock, or NOBODY
    tpc,            \* where each thread is in try_lock, acquire and release
    old_holder      \* each thread's local old_holder, the expected value of its CAS

vars ==
    <<log, master, disk, cfg, mode, swizzling, org_swizzling, pc, bf, xct, heap, redo_lsn,
      undo_lsn, last_lsn, commit_lsn, in_doubt_count, xct_count, mounted, sm, wpc, working,
      chkpts, trace, fatal, crash_disk, chkpt_img, restarted, prev_final, undone,
      durable_lsn, holder, tpc, old_holder>>

\* the variables of recovery
restart_vars ==
    <<log, master, disk, cfg, mode, swizzling, org_swizzling, pc, bf, xct, heap, redo_lsn,
      undo_lsn, last_lsn, commit_lsn, in_doubt_count, xct_count, mounted, sm, wpc, working,
      chkpts, trace, fatal, crash_disk, chkpt_img, restarted, prev_final, undone,
      durable_lsn>>

\* the variables of the spinlock
tatas_vars == <<holder, tpc, old_holder>>

\* the threads that use one tatas_lock, named by their pthread_t
MaxThreads == 3

Threads == 1..MaxThreads

\* tatas_lock::NOBODY
NOBODY == 0

\* tatas_lock::tatas_lock(): nobody holds the lock, every thread is outside
TatasInit ==
    /\ holder = NOBODY
    /\ tpc = [t \in Threads |-> "idle"]
    /\ old_holder = [t \in Threads |-> NOBODY]

inputs == <<master, cfg, crash_disk>>

history == <<restarted, prev_final>>

outputs == <<redo_lsn, undo_lsn, last_lsn, commit_lsn, in_doubt_count>>

worker == <<sm, wpc, working>>

\* recover() was not called yet: what does not depend on the log, the disk
\* and the policy
NotStarted ==
    /\ mode = t_not_started
    /\ swizzling = TRUE
    /\ org_swizzling = FALSE
    /\ xct = <<>>
    /\ heap = {}
    /\ redo_lsn = NullLsn
    /\ undo_lsn = NullLsn
    /\ last_lsn = NullLsn
    /\ commit_lsn = NullLsn
    /\ in_doubt_count = 0
    /\ xct_count = 0
    /\ mounted = {}
    /\ sm = [commit_lsn |-> NullLsn, redo_lsn |-> NullLsn, last_lsn |-> NullLsn,
             in_doubt_count |-> 0]
    /\ wpc = "none"
    /\ working = FALSE
    /\ chkpts = 0
    /\ trace = <<>>
    /\ fatal = ""
    /\ chkpt_img = NoChkpt
    /\ restarted = FALSE
    /\ prev_final = [pages |-> <<>>, xct |-> <<>>]
    /\ undone = <<>>
    /\ durable_lsn = CurrLsn(log)
    /\ TatasInit

Init ==
    /\ log \in GenLogs \cup ScenarioLogs \cup PageScenarioLogs \cup NoMasterLogs
    /\ master = MasterOf(log)
    /\ disk \in DisksOf(log)
    /\ crash_disk = disk
    /\ cfg \in Configs
    /\ pc = "idle"
    /\ bf = <<>>
    /\ NotStarted

\* the record the passes work on
St ==
    [log |-> log, bf |-> bf, disk |-> disk, xct |-> xct, heap |-> heap,
     mounted |-> mounted, dirty_count |-> 0, commit_lsn |-> sm.commit_lsn,
     chkpts |-> chkpts, trace |-> trace, chkpt_img |-> chkpt_img, undone |-> undone,
     durable_lsn |-> durable_lsn, user_held |-> {}, held |-> {}, bare |-> {},
     applied |-> <<>>, loads |-> {}, fatal |-> ""]

\* chkpt_m::synch_take: a checkpoint is taken before the call returns
synch_take(s) ==
    [s EXCEPT !.chkpts = @ + 1, !.trace = Append(@, "chkpt"),
              !.chkpt_img = ChkptImage(s.bf, s.xct)]

\* a phase starts
Phase(s, name) == [s EXCEPT !.trace = Append(@, name)]

\* -------------------------------------------------------------- restart_m::recover

\* the message of the fatal error of a recover() that is called too late
CannotRecover == "Cannot recovery while the system is not in before_recovery state"

\* a recover() that never refuses to run
AlwaysBeforeRecovery(m) == TRUE

\* smlevel_0::before_recovery()
before_recovery(m) == m = t_not_started

\* a recover() that goes on to REDO and UNDO under every policy
AlwaysSerial(c) == TRUE

use_serial_recovery(c) == c.serial

\* a recover() that enters Phase 3 whatever Analysis found
AlwaysUndo(n) == TRUE

\* recover enters Phase 3 (reverse UNDO and the checkpoint after it) only when
\* Analysis left doomed transactions in the transaction table
SomethingToUndo(n) == n # 0

\* recover is called: it refuses to run unless the system is before recovery,
\* else it clears its outputs and turns pointer swizzling off
RecoverEnter ==
    /\ pc \in {"idle", "returned"}
    /\ fatal = ""
    /\ IF ~before_recovery(mode)
       THEN /\ pc' = "fatal"
            /\ fatal' = CannotRecover
            /\ UNCHANGED <<outputs, swizzling, org_swizzling>>
       ELSE /\ pc' = "analysis"
            /\ redo_lsn' = NullLsn
            /\ commit_lsn' = NullLsn
            /\ in_doubt_count' = 0
            /\ undo_lsn' = NullLsn
            /\ org_swizzling' = swizzling
            /\ swizzling' = FALSE
            /\ UNCHANGED <<last_lsn, fatal>>
    /\ UNCHANGED <<log, inputs, disk, mode, bf, xct, heap, xct_count, mounted, worker, chkpts,
                   trace, chkpt_img, history, undone, durable_lsn, holder,
                   tpc, old_holder>>

\* Phase 1: analysis_pass, then the count of doomed transactions and the
\* checkpoint; in concurrent mode recover returns here
RecoverAnalysis ==
    /\ pc = "analysis"
    /\ fatal = ""
    /\ \E a \in {analysis_pass(log, master, use_serial_recovery(cfg))} :
       \E c \in {synch_take([Phase(St, "analysis") EXCEPT !.bf = a.bf, !.xct = a.xct])} :
           /\ mode' = t_in_analysis
           /\ log' = a.log
           /\ bf' = a.bf
           /\ xct' = a.xct
           /\ heap' = a.heap
           /\ redo_lsn' = a.redo_lsn
           /\ undo_lsn' = a.undo_lsn
           /\ last_lsn' = a.last_lsn
           /\ commit_lsn' = a.commit_lsn
           /\ in_doubt_count' = a.in_doubt_count
           /\ mounted' = a.mounted
           /\ fatal' = a.fatal
           /\ IF a.fatal # ""
              THEN /\ pc' = "fatal"
                   /\ trace' = Append(trace, "analysis")
                   /\ UNCHANGED <<xct_count, chkpts, chkpt_img>>
              ELSE /\ xct_count' = num_active_xcts(a.xct)
                   /\ chkpts' = c.chkpts
                   /\ chkpt_img' = c.chkpt_img
                   /\ trace' = c.trace
                   /\ pc' = IF use_serial_recovery(cfg) THEN "redo" ELSE "returned"
    /\ UNCHANGED <<inputs, disk, swizzling, org_swizzling, worker, history, undone,
                   durable_lsn, holder,
                   tpc, old_holder>>

\* Phase 2 of serial recovery: log-driven REDO if there are in_doubt pages,
\* then the flush of the buffer pool
RecoverRedo ==
    /\ pc = "redo"
    /\ fatal = ""
    /\ mode' = t_in_redo
    /\ IF in_doubt_count # 0
       THEN \E r \in {redo_log_pass(Phase(St, "redo"), log, redo_lsn, CurrLsn(log),
                                     in_doubt_count, TRUE, cfg.redo_log)} :
                /\ log' = r.log
                /\ fatal' = r.fatal
                /\ mounted' = r.mounted
                /\ trace' = r.trace
                /\ IF r.fatal # ""
                   THEN /\ pc' = "fatal"
                        /\ bf' = r.bf
                        /\ UNCHANGED disk
                   ELSE /\ pc' = "undo"
                        /\ disk' = force_all(r.bf, disk)
                        /\ bf' = CleanAll(r.bf)
       ELSE /\ pc' = "undo"
            /\ UNCHANGED <<log, fatal, mounted, trace, bf, disk>>
    /\ UNCHANGED <<inputs, swizzling, org_swizzling, xct, heap, outputs, xct_count,
                   worker, chkpts, chkpt_img, history, undone, durable_lsn, holder,
                   tpc, old_holder>>

\* Phase 3 of serial recovery: reverse UNDO and a checkpoint if there are
\* doomed transactions; then swizzling is restored and recover returns
RecoverUndo ==
    /\ pc = "undo"
    /\ fatal = ""
    /\ mode' = t_in_undo
    /\ IF SomethingToUndo(xct_count)
       THEN \E u \in {synch_take(undo_reverse_pass(Phase(St, "undo"), TRUE))} :
                /\ log' = u.log
                /\ bf' = u.bf
                /\ xct' = u.xct
                /\ heap' = u.heap
                /\ trace' = u.trace
                /\ chkpts' = u.chkpts
                /\ chkpt_img' = u.chkpt_img
                /\ undone' = u.undone
                /\ durable_lsn' = u.durable_lsn
                /\ UNCHANGED tatas_vars
       ELSE UNCHANGED <<log, bf, xct, heap, trace, chkpts, chkpt_img, undone, durable_lsn, holder,
                   tpc, old_holder>>
    /\ swizzling' = org_swizzling
    /\ pc' = "returned"
    /\ UNCHANGED <<inputs, disk, org_swizzling, outputs, xct_count, mounted, worker, fatal,
                   history>>

\* the caller of recover opens the system: the mode becomes forward
\* processing; in concurrent mode it publishes what recover returned and
\* starts the restart thread
CallerOpens ==
    /\ pc = "returned"
    /\ fatal = ""
    /\ mode \in {t_in_analysis, t_in_undo}
    /\ mode' = t_forward_processing
    /\ IF use_serial_recovery(cfg)
       THEN UNCHANGED worker
       ELSE /\ sm' = [commit_lsn |-> commit_lsn, redo_lsn |-> redo_lsn,
                      last_lsn |-> last_lsn, in_doubt_count |-> in_doubt_count]
            /\ wpc' = "start"
            /\ UNCHANGED working
    /\ UNCHANGED <<log, inputs, disk, swizzling, org_swizzling, pc, bf, xct, heap, outputs,
                   xct_count, mounted, chkpts, trace, fatal, chkpt_img, history,
                   undone, durable_lsn, holder,
                   tpc, old_holder>>

\* ------------------------------------------------------ restart_thread_t::run

\* a redo_concurrent that takes its checkpoint only when REDO had work
RedoCheckpointIfWork(s, c, smv) ==
    IF smv.in_doubt_count = 0 THEN s
    ELSE synch_take(IF c.redo_log
                    THEN redo_log_pass(s, s.log, smv.redo_lsn, CurrLsn(s.log),
                                       smv.in_doubt_count, FALSE, TRUE)
                    ELSE redo_page_pass(s, smv.in_doubt_count))

\* restart_m::redo_concurrent: log-driven or page-driven REDO, then a checkpoint
redo_concurrent(s, c, smv) ==
    IF use_serial_recovery(c)
    THEN Fatal(s, "REDO phase, restart_m::redo_concurrent() is valid for concurrent operation only")
    ELSE LET r == IF c.redo_log
                  THEN IF smv.in_doubt_count # 0
                       THEN redo_log_pass(s, s.log, smv.redo_lsn, CurrLsn(s.log),
                                          smv.in_doubt_count, FALSE, TRUE)
                       ELSE s
                  ELSE redo_page_pass(s, smv.in_doubt_count)
         IN  IF r.fatal # "" THEN r ELSE synch_take(r)

\* restart_m::undo_concurrent: reverse or transaction-driven UNDO, then a
\* checkpoint
undo_concurrent(s, c) ==
    IF use_serial_recovery(c)
    THEN Fatal(s, "UNDO phase, restart_m::undo_concurrent() is valid for concurrent operation only")
    ELSE synch_take(IF c.undo_reverse THEN undo_reverse_pass([s EXCEPT !.heap = {}], FALSE)
                    ELSE undo_txn_pass(s))

\* the restart thread starts
WorkerBegin ==
    /\ wpc = "start"
    /\ fatal = ""
    /\ working' = TRUE
    /\ wpc' = "redo"
    /\ UNCHANGED <<log, inputs, disk, mode, swizzling, org_swizzling, pc, bf, xct, heap,
                   outputs, xct_count, mounted, sm, chkpts, trace, fatal, chkpt_img, history,
                   undone, durable_lsn, holder,
                   tpc, old_holder>>

\* the restart thread runs redo_concurrent
WorkerRedo ==
    /\ wpc = "redo"
    /\ fatal = ""
    /\ \E ul \in UserLatchesOf(log) :
       \E r \in {redo_concurrent([Phase(St, "redo") EXCEPT !.user_held = ul], cfg, sm)} :
           /\ log' = r.log
           /\ bf' = r.bf
           /\ mounted' = r.mounted
           /\ fatal' = r.fatal
           /\ trace' = r.trace
           /\ chkpts' = r.chkpts
           /\ chkpt_img' = r.chkpt_img
           /\ wpc' = IF r.fatal # "" THEN "fatal" ELSE "undo"
    /\ UNCHANGED <<inputs, disk, mode, swizzling, org_swizzling, pc, xct, heap, outputs,
                   xct_count, sm, working, history, undone, durable_lsn, holder,
                   tpc, old_holder>>

\* the restart thread runs undo_concurrent
WorkerUndo ==
    /\ wpc = "undo"
    /\ fatal = ""
    /\ \E u \in {undo_concurrent(Phase(St, "undo"), cfg)} :
           /\ log' = u.log
           /\ bf' = u.bf
           /\ xct' = u.xct
           /\ sm' = [sm EXCEPT !.commit_lsn = u.commit_lsn]
           /\ fatal' = u.fatal
           /\ trace' = u.trace
           /\ chkpts' = u.chkpts
           /\ chkpt_img' = u.chkpt_img
           /\ undone' = u.undone
           /\ durable_lsn' = u.durable_lsn
           /\ UNCHANGED tatas_vars
           /\ wpc' = IF u.fatal # "" THEN "fatal" ELSE "end"
    /\ UNCHANGED <<inputs, disk, mode, swizzling, org_swizzling, pc, heap, outputs, xct_count,
                   mounted, working, history>>

\* the restart thread is done
WorkerEnd ==
    /\ wpc = "end"
    /\ fatal = ""
    /\ working' = FALSE
    /\ wpc' = "done"
    /\ UNCHANGED <<log, inputs, disk, mode, swizzling, org_swizzling, pc, bf, xct, heap,
                   outputs, xct_count, mounted, sm, chkpts, trace, fatal, chkpt_img, history,
                   undone, durable_lsn, holder,
                   tpc, old_holder>>

\* the recovery has done all its work: recover() returned in serial mode, the
\* child thread finished in concurrent mode
Recovered ==
    /\ fatal = ""
    /\ IF use_serial_recovery(cfg) THEN pc = "returned" ELSE wpc = "done"

\* the LSN every page has once the buffer pool's dirty pages are written
FinalPages(bfp, dsk) ==
    [q \in DOMAIN force_all(bfp, dsk) |-> force_all(bfp, dsk)[q].lsn]

\* The system goes down after a completed recovery, with no user write in
\* between, and comes up again: the log ends with the records of the latest
\* checkpoint, which is the new master; the buffer pool and the transaction
\* table are lost; the dirty pages reached the disk or did not.
Restart ==
    /\ Recovered
    /\ ~restarted
    /\ chkpts > 0
    /\ restarted' = TRUE
    /\ prev_final' = [pages |-> FinalPages(bf, disk), xct |-> xct]
    /\ log' = log \o ChkptRecs(chkpt_img, CurrLsn(log))
    /\ master' = CurrLsn(log)
    /\ \E flushed \in BOOLEAN : disk' = IF flushed THEN force_all(bf, disk) ELSE disk
    /\ crash_disk' = disk'
    /\ mode' = t_not_started
    /\ swizzling' = TRUE
    /\ org_swizzling' = FALSE
    /\ pc' = "idle"
    /\ bf' = <<>>
    /\ xct' = <<>>
    /\ heap' = {}
    /\ redo_lsn' = NullLsn
    /\ undo_lsn' = NullLsn
    /\ last_lsn' = NullLsn
    /\ commit_lsn' = NullLsn
    /\ in_doubt_count' = 0
    /\ xct_count' = 0
    /\ mounted' = {}
    /\ sm' = [commit_lsn |-> NullLsn, redo_lsn |-> NullLsn, last_lsn |-> NullLsn,
              in_doubt_count |-> 0]
    /\ wpc' = "none"
    /\ working' = FALSE
    /\ chkpts' = 0
    /\ trace' = <<>>
    /\ chkpt_img' = NoChkpt
    /\ undone' = <<>>
    /\ durable_lsn' = CurrLsn(log')
    /\ UNCHANGED tatas_vars
    /\ UNCHANGED <<cfg, fatal>>

Next ==
    \/ RecoverEnter
    \/ RecoverAnalysis
    \/ RecoverRedo
    \/ RecoverUndo
    \/ CallerOpens
    \/ WorkerBegin
    \/ WorkerRedo
    \/ WorkerUndo
    \/ WorkerEnd

Spec == Init /\ [][Next]_vars

\* recovery, a restart after it, and the recovery that follows
NextRestart ==
    \/ RecoverEnter
    \/ RecoverAnalysis
    \/ RecoverRedo
    \/ RecoverUndo
    \/ CallerOpens
    \/ WorkerBegin
    \/ WorkerRedo
    \/ WorkerUndo
    \/ WorkerEnd
    \/ Restart

SpecRestart == Init /\ [][NextRestart]_vars

\* ------------------------------------------- _redo_log_with_pid, one call
\* One call of _redo_log_with_pid on one record and one control block that is
\* in the hash table, for every kind of record and every flag setting.

MaxCbLsn == 2

\* the record types of the call: allocation, deallocation, an update, a format
CbRecTypes ==
    {"t_alloc_a_page", "t_alloc_consecutive_pages", "t_dealloc_a_page",
     "t_page_set_to_be_deleted", "t_btree_insert", "t_page_img_format"}

\* the record of a type at LSN l, on page 1
CbRec(ty, l) ==
    IF ty = "t_btree_insert" THEN LogRec(l, ty, 1, 1, 0, NullLsn, {"redo", "undo"})
    ELSE LogRec(l, ty, NullTid, 1, 0, NullLsn, {"redo", "ssx"})

\* the control blocks of the call: in_doubt, dirty, or neither; a block with a
\* flag is used, one without may be used (Analysis cleared in_doubt for an
\* allocation record and kept the page) or not
CbOf(flag, used, lsn) ==
    [in_doubt |-> flag = "in_doubt", dirty |-> flag = "dirty", used |-> used,
     rec_lsn |-> IF flag = "clean" THEN NullLsn ELSE 1, dependency_lsn |-> NullLsn,
     page_lsn |-> IF flag = "dirty" THEN lsn ELSE NullLsn, loaded |-> flag = "dirty"]

\* the state before the call: the record is the log, page 1 is in the hash
\* table and on disk
OneCallInit ==
    /\ \E ty \in CbRecTypes, l \in 1..MaxCbLsn : log = <<CbRec(ty, l)>>
    /\ master = NullLsn
    /\ \E flag \in {"clean", "in_doubt", "dirty"}, used \in BOOLEAN, dl \in 0..MaxCbLsn :
           /\ flag # "clean" => used
           /\ bf = [q \in {1} |-> CbOf(flag, used, dl)]
           /\ disk = [q \in {1} |-> [lsn |-> dl, bad |-> FALSE]]
    /\ crash_disk = disk
    /\ cfg \in {c \in Configs : c.serial}
    /\ pc = "redo_with_pid"
    /\ NotStarted

\* the call: _redo_log_with_pid(r, lsn, end_logscan_lsn, page_updated, ...)
RedoLogWithPid ==
    /\ pc = "redo_with_pid"
    /\ \E r \in {redo_log_with_pid(Phase(St, "redo"), log[1], log[1].pid, CurrLsn(log))} :
           /\ bf' = r.bf
           /\ fatal' = r.fatal
           /\ trace' = r.trace
    /\ pc' = "redone"
    /\ UNCHANGED <<log, inputs, disk, mode, swizzling, org_swizzling, xct, heap, outputs,
                   xct_count, mounted, worker, chkpts, chkpt_img, history, undone,
                   durable_lsn, holder, tpc, old_holder>>

OneCallNext == RedoLogWithPid

\* one call of _redo_log_with_pid on every record and control block
SpecOneCall == OneCallInit /\ [][OneCallNext]_vars

\* ------------------------------------------------------------- tatas_lock
\* A thread outside the lock is "idle"; in acquire it is at "spin" or at
\* "cas"; "held" is a thread that returned from acquire or from a successful
\* try_lock; in release it is at "store" after the assertion.

\* lintel::unsafe::atomic_compare_exchange_strong(&_holder.bits, &expected,
\* desired): _holder becomes desired if it equals expected; if not, expected
\* receives the value of _holder
atomic_compare_exchange_strong(h, expected, desired) ==
    IF h = expected THEN [success |-> TRUE, object |-> desired, expected |-> expected]
    ELSE [success |-> FALSE, object |-> h, expected |-> h]

\* tatas_lock::is_mine
is_mine(t) == holder = t

\* tatas_lock::try_lock: one compare-and-exchange against NOBODY
try_lock(t) ==
    /\ tpc[t] = "idle"
    /\ \E c \in {atomic_compare_exchange_strong(holder, NOBODY, t)} :
           /\ holder' = c.object
           /\ tpc' = [tpc EXCEPT ![t] = IF c.success THEN "held" ELSE "idle"]
    /\ UNCHANGED old_holder
    /\ UNCHANGED restart_vars

\* tatas_lock::acquire is entered: old_holder = NOBODY, once, before the loop
acquire(t) ==
    /\ tpc[t] = "idle"
    /\ ~is_mine(t)
    /\ old_holder' = [old_holder EXCEPT ![t] = NOBODY]
    /\ tpc' = [tpc EXCEPT ![t] = "spin"]
    /\ UNCHANGED holder
    /\ UNCHANGED restart_vars

\* tatas_lock::spin returns: the thread read NOBODY in _holder
spin(t) ==
    /\ tpc[t] = "spin"
    /\ holder = NOBODY
    /\ tpc' = [tpc EXCEPT ![t] = "cas"]
    /\ UNCHANGED <<holder, old_holder>>
    /\ UNCHANGED restart_vars

\* the compare-and-exchange of the loop condition of acquire, with the
\* old_holder the attempt before left
AcquireCas(t) ==
    /\ tpc[t] = "cas"
    /\ \E c \in {atomic_compare_exchange_strong(holder, old_holder[t], t)} :
           /\ holder' = c.object
           /\ old_holder' = [old_holder EXCEPT ![t] = c.expected]
           /\ tpc' = [tpc EXCEPT ![t] = IF c.success THEN "held" ELSE "spin"]
    /\ UNCHANGED restart_vars

\* tatas_lock::release up to its assertion: w_assert1(is_mine()) stops the
\* thread in a build that checks it, and is no code in a build that does not
release(t) ==
    /\ tpc[t] = "held"
    /\ \E checked \in BOOLEAN :
           tpc' = [tpc EXCEPT ![t] = IF checked /\ ~is_mine(t) THEN "aborted" ELSE "store"]
    /\ UNCHANGED <<holder, old_holder>>
    /\ UNCHANGED restart_vars

\* the store of release: _holder.bits = NOBODY
ReleaseStore(t) ==
    /\ tpc[t] = "store"
    /\ holder' = NOBODY
    /\ tpc' = [tpc EXCEPT ![t] = "idle"]
    /\ UNCHANGED old_holder
    /\ UNCHANGED restart_vars

\* the engine is down while the lock is exercised
EngineDown ==
    /\ Init
    /\ log = <<>>
    /\ cfg.serial
    /\ disk = <<>>

TatasNext ==
    \/ \E t \in Threads : try_lock(t)
    \/ \E t \in Threads : acquire(t)
    \/ \E t \in Threads : spin(t)
    \/ \E t \in Threads : AcquireCas(t)
    \/ \E t \in Threads : release(t)
    \/ \E t \in Threads : ReleaseStore(t)

\* threads that take and release one tatas_lock in any interleaving
SpecTatas == EngineDown /\ [][TatasNext]_vars

\* =============================================================== properties

Range(f) == {f[i] : i \in DOMAIN f}

IsPrefix(a, b) == Len(a) <= Len(b) /\ \A i \in 1..Len(a) : a[i] = b[i]


\* the order of the operating modes
ModeRank(m) ==
    CASE m = t_not_started -> 0
      [] m = t_in_analysis -> 1
      [] m = t_in_redo -> 2
      [] m = t_in_undo -> 3
      [] OTHER -> 4

\* ---- C1

\* C1: a call of recover() goes on to Analysis only when the operating mode is
\* before-recovery; a call in any other mode ends in the fatal error at once:
\* no phase runs, the mode, the buffer pool, the transaction table and the
\* swizzling setting stay as they were.
C1_RecoverOnlyBeforeRecovery ==
    [][(pc \in {"idle", "returned"} /\ pc' # pc)
         => IF mode = t_not_started
            THEN pc' = "analysis"
            ELSE /\ pc' = "fatal"
                 /\ fatal' = CannotRecover
                 /\ bf' = bf
                 /\ xct' = xct
                 /\ swizzling' = swizzling
                 /\ mode' = mode
                 /\ trace' = trace]_vars

\* a second call of recover() was refused while in_doubt pages and doomed
\* transactions of the first call were in place
C1_Witness ==
    /\ pc = "fatal"
    /\ fatal = CannotRecover
    /\ mode = t_in_analysis
    /\ in_doubt_count > 0
    /\ Doomed(xct) # {}

\* ---- C2

\* the phases a serial recover() can have run, in order
SerialTraces ==
    {<<"analysis", "chkpt", "redo", "undo", "chkpt">>, <<"analysis", "chkpt", "undo", "chkpt">>}

\* C2: in serial mode the operating mode never moves back during recover(),
\* REDO runs only after Analysis and its checkpoint and only in mode InRedo
\* or later, UNDO runs only after REDO and only in mode InUndo or later.
C2_SerialModeOrder ==
    [][cfg.serial
         => /\ ModeRank(mode') >= ModeRank(mode)
            /\ \E t \in SerialTraces : IsPrefix(trace', t)
            /\ (trace' # <<>>) => ModeRank(mode') >= 1
            /\ ("redo" \in Range(trace')) => ModeRank(mode') >= 2
            /\ ("undo" \in Range(trace')) => ModeRank(mode') >= 3
            /\ (mode' = t_in_redo /\ mode = t_in_analysis) => pc = "redo"
            /\ (mode' = t_in_undo /\ mode = t_in_redo) => pc = "undo"]_vars

\* a serial recover() went through REDO and UNDO and returned
C2_Witness ==
    /\ cfg.serial
    /\ pc = "returned"
    /\ mode = t_in_undo
    /\ trace = <<"analysis", "chkpt", "redo", "undo", "chkpt">>

\* ---- C6

\* C6: with a null master LSN recover() reports null redo_lsn, undo_lsn,
\* last_lsn and commit_lsn and no in_doubt page, registers no page in the
\* buffer pool and no transaction, and Analysis does not fail: the log is not
\* read even when it holds records.
C6_NullMaster ==
    (master = NullLsn /\ trace # <<>>)
        => /\ redo_lsn = NullLsn
           /\ undo_lsn = NullLsn
           /\ last_lsn = NullLsn
           /\ commit_lsn = NullLsn
           /\ in_doubt_count = 0
           /\ InDoubtPages(bf) = {}
           /\ Doomed(xct) = {}
           /\ fatal \in {"", CannotRecover}

\* recover() returned for a log that holds a record but has no master
C6_Witness ==
    /\ master = NullLsn
    /\ log # <<>>
    /\ pc = "returned"
    /\ "analysis" \in Range(trace)

\* ---- C3

C4_ConcurrentReturnsAfterAnalysis ==
    (~cfg.serial /\ pc = "returned" /\ wpc \in {"none", "start"})
        => /\ trace = <<"analysis", "chkpt">>
           /\ chkpts = 1
           /\ (wpc = "none") => mode = t_in_analysis
           /\ DirtyPages(bf) = {}
           /\ Cardinality(InDoubtPages(bf)) = in_doubt_count
           /\ Cardinality(DOMAIN xct) = xct_count
           /\ \A u \in DOMAIN xct : xct[u].state = "xct_active" /\ xct[u].doomed

\* a concurrent recover() returned with in_doubt pages and doomed transactions
C4_Witness ==
    /\ ~cfg.serial
    /\ pc = "returned"
    /\ wpc = "none"
    /\ mode = t_in_analysis
    /\ in_doubt_count > 0
    /\ xct_count > 0

\* ---- C5

\* the phases of a concurrent recovery, in order
ConcurrentTrace == <<"analysis", "chkpt", "redo", "chkpt", "undo", "chkpt">>

\* C5: in concurrent mode the phases run in the order Analysis, checkpoint,
\* REDO, checkpoint, UNDO, checkpoint; the restart thread is working from the
\* start of REDO to the end of the last checkpoint, and when it is done all
\* three checkpoints were taken, with or without work in a phase.
C5_WorkerOrder ==
    ~cfg.serial
        => /\ IsPrefix(trace, ConcurrentTrace)
           /\ (wpc \in {"redo", "undo", "end"}) => working
           /\ (wpc \in {"none", "start", "done"}) => ~working
           /\ (wpc = "undo") => trace = SubSeq(ConcurrentTrace, 1, 4)
           /\ (wpc \in {"end", "done"}) => (trace = ConcurrentTrace /\ chkpts = 3)

\* the restart thread ended after phases that had no work
C5_Witness ==
    /\ ~cfg.serial
    /\ wpc = "done"
    /\ master # NullLsn
    /\ sm.in_doubt_count = 0
    /\ xct_count = 0
    /\ chkpts = 3

\* ---- C7

\* what log-driven REDO of serial recovery makes of the state Analysis left
SerialRedo ==
    redo_log_pass(Phase(St, "redo"), log, redo_lsn, CurrLsn(log), in_doubt_count, TRUE,
                  cfg.redo_log)

\* the page of the scenario is dirty and as young as the insert
PageRedone(bfp) ==
    /\ 42 \in DOMAIN bfp
    /\ bfp[42].dirty
    /\ ~bfp[42].in_doubt
    /\ bfp[42].page_lsn >= 128

\* what the scenario of the committed transaction expects of a run on log l
CommittedExpect(l) ==
    IsPrefix(l, log)
        => /\ fatal \in {"", CannotRecover}
           /\ (trace # <<>>)
                => /\ in_doubt_count = 1
                   /\ DOMAIN bf = {42}
                   /\ xct = <<>>
                   /\ commit_lsn = NullLsn
           /\ (pc = "redo") => (SerialRedo.fatal = "" /\ PageRedone(SerialRedo.bf))
           /\ (~cfg.serial /\ "redo" \in Range(trace)) => PageRedone(bf)

Compensations(l) ==
    {i \in 1..Len(l) : is_cpsn(l[i]) /\ l[i].tid = 1 /\ l[i].pid = 42 /\ l[i].lsn > 128}

\* Analysis is over and UNDO has not run
AfterAnalysis == trace # <<>> /\ fatal = "" /\ "undo" \notin Range(trace)

\* UNDO is over
AfterUndo == "undo" \in Range(trace) /\ fatal = ""

\* T1 is the one transaction of the table, doomed, with 128 to undo next and
\* first_lsn as its first LSN
OnlyT1Doomed(first_lsn) ==
    /\ DOMAIN xct = {1}
    /\ Doomed(xct) = {1}
    /\ xct[1].undo_nxt = 128
    /\ xct[1].first_lsn = first_lsn
    /\ xct_count = 1

\* the run is on scenario log l, which T1's end record does not follow
RunsOn(l) ==
    /\ IsPrefix(l, log)
    /\ ~IsPrefix(Append(l, LogRec(200, "t_xct_end", 1, 0, 0, 128, {})), log)

\* what REDO and UNDO of the in-flight insert make of a run on log l
InFlightExpect(l) ==
    RunsOn(l)
        => /\ fatal \in {"", CannotRecover}
           /\ AfterAnalysis => (in_doubt_count = 1 /\ commit_lsn = 128)
           /\ (pc = "redo") => (SerialRedo.fatal = "" /\ PageRedone(SerialRedo.bf))
           /\ (~cfg.serial /\ "redo" \in Range(trace)) => PageRedone(bf)
           /\ AfterUndo => (Compensations(log) # {} /\ xct = <<>>)

ChkptTypes ==
    {"t_chkpt_begin", "t_chkpt_bf_tab", "t_chkpt_xct_tab", "t_chkpt_dev_tab", "t_chkpt_end"}

\* the positions of log l after the end record of the master checkpoint
AfterMasterEnd(l) ==
    LET es == {i \in 1..Len(l) : l[i].type = "t_chkpt_end"}
    IN  IF es = {} THEN {} ELSE {i \in 1..Len(l) : i > SetMin(es)}

\* the records of a later checkpoint in log l, by position
LaterChkptRecs(l) == {i \in AfterMasterEnd(l) : l[i].type \in ChkptTypes}

RECURSIVE Without(_, _)
Without(l, drop) ==
    IF l = <<>> THEN <<>>
    ELSE LET rest == Without(SubSeq(l, 1, Len(l) - 1), drop)
         IN  IF Len(l) \in drop THEN rest ELSE Append(rest, l[Len(l)])

\* log l with the records of the later checkpoint removed
StripLater(l) == Without(l, LaterChkptRecs(l))

\* the in_doubt pages of a buffer pool with their rec_lsn
InDoubtRecLsns(bfp) == {<<q, bfp[q].rec_lsn>> : q \in InDoubtPages(bfp)}

\* Analysis has run and nothing after it: the log is still the one of the crash
JustAnalyzed == trace \in {<<"analysis">>, <<"analysis", "chkpt">>}

Scanned(l, m) == {i \in 1..Len(l) : l[i].lsn > m}

\* the positions of the transaction-table records of the master checkpoint
MasterXctTabs(l, m) ==
    {i \in Scanned(l, m) \ AfterMasterEnd(l) : l[i].type = "t_chkpt_xct_tab"}

\* the first LSNs the master checkpoint reports for transaction u
ListedFirstLsns(l, m, u) ==
    {e.first_lsn : e \in {x \in UNION {l[i].xrec : i \in MasterXctTabs(l, m)} : x.tid = u}}

\* the LSNs of the scanned records of transaction u
ScannedLsns(l, m, u) == {l[i].lsn : i \in {j \in Scanned(l, m) : l[j].tid = u}}

\* the first LSN of a doomed transaction
FirstLsnOf(l, m, u) == SetMin(ListedFirstLsns(l, m, u) \cup ScannedLsns(l, m, u))

\* C10: after Analysis commit_lsn is the least first LSN of the doomed
\* transactions, the first LSN of a transaction being the smaller of what the
\* master checkpoint lists for it and the LSN of its earliest scanned record,
\* in whatever order these records come; it is NULL without doomed
\* transactions.
C10_CommitLsnIsMinFirstLsn ==
    (JustAnalyzed /\ fatal = "")
        => commit_lsn = IF Doomed(xct) = {} THEN NullLsn
                        ELSE SetMin({FirstLsnOf(log, master, u) : u \in Doomed(xct)})

\* ---- C11

\* the doomed transactions Analysis took from the transaction table of the
\* master checkpoint alone: the scan holds no record of theirs
FromChkptOnly(l, m, xt) == {u \in Doomed(xt) : ScannedLsns(l, m, u) = {}}

MasterComplete(l) ==
    \E i \in 1..Len(l) :
        /\ l[i].type = "t_chkpt_end"
        /\ l[i].lsns[1] = MasterOf(l)
        /\ l[i].lsns[2] # NullLsn
        /\ l[i].lsns[3] # NullLsn

\* write-ahead logging: no page on disk is younger than the log
RespectsWAL(l, dsk) == \A p \in DOMAIN dsk : dsk[p].lsn < CurrLsn(l)

\* C12: on a log with a complete master checkpoint and a disk that respects
\* write-ahead logging, serial recover() meets no fatal error and returns with
\* no page in_doubt, also when a page of the checkpoint's buffer table was
\* written to disk before the crash.
C12_SerialRecoverCompletes ==
    (cfg.serial /\ MasterComplete(log) /\ RespectsWAL(log, crash_disk))
        => /\ fatal \in {"", CannotRecover}
           /\ (pc = "returned") => InDoubtPages(bf) = {}

\* ---- C13

\* no dirty page of a buffer pool has a rec_lsn above its page LSN
RecLsnBelowPageLsn(bfp) == \A p \in DirtyPages(bfp) : bfp[p].rec_lsn <= bfp[p].page_lsn

\* the state of the scan of log-driven REDO after the first k records of the
\* log, started from the state Analysis left
RedoAfter(k, start_lsn, serial) ==
    RedoScan([St EXCEPT !.dirty_count = 0], SubSeq(log, 1, k), ScanIdx(log, start_lsn),
             CurrLsn(log), serial)

\* a format record of page 2 follows an update of page 2 in log l
Reformatted(l) ==
    \E i, j \in 1..Len(l) :
        /\ i < j
        /\ l[i].type = "t_btree_insert" /\ l[i].pid = 2
        /\ l[j].type = "t_page_img_format" /\ l[j].pid = 2

Reanalyzed == restarted /\ Len(trace) > 0 /\ trace[1] = "analysis"

NamingRecs(l, m, p) ==
    {i \in Scanned(l, m) :
        is_redo(l[i]) /\ (l[i].pid = p \/ (is_multi_page(l[i]) /\ l[i].pid2 = p))}

\* the scanned records that allocate or deallocate page p
AllocRecs(l, m, p) ==
    {i \in Scanned(l, m) :
        l[i].pid = p /\ (is_page_allocate(l[i]) \/ is_page_deallocate(l[i]))}

\* the buffer pool after Log Analysis has scanned the first k records
BfAfter(k) == analysis_pass(SubSeq(log, 1, k), master, TRUE).bf

\* a registration never raises the rec_lsn of a page that is in_doubt already
OnlyLowers ==
    \A k \in 1..Len(log) :
        \A p \in InDoubtPages(BfAfter(k - 1)) \cap InDoubtPages(BfAfter(k)) :
            BfAfter(k)[p].rec_lsn <= BfAfter(k - 1)[p].rec_lsn

\* C15 as stated: at the end of Analysis the rec_lsn of an in_doubt page is
\* at most the LSN of every scanned redoable record that names the page as
\* first or second page, and registering an in_doubt page never raises its
\* rec_lsn.
C15_RecLsnBelowEveryRecord ==
    (JustAnalyzed /\ fatal = "")
        => /\ \A p \in InDoubtPages(bf) :
                 \A i \in NamingRecs(log, master, p) : bf[p].rec_lsn <= log[i].lsn
           /\ OnlyLowers

\* C15 amended: the bound holds for the records that follow the last scanned
\* allocation or deallocation record of the page, for all the records that
\* name it when there is none.
C15_RecLsnBelowRecordsSinceAlloc ==
    (JustAnalyzed /\ fatal = "")
        => /\ \A p \in InDoubtPages(bf) :
                 \A i \in NamingRecs(log, master, p) :
                    (\A j \in AllocRecs(log, master, p) : j < i) => bf[p].rec_lsn <= log[i].lsn
           /\ OnlyLowers

C15_Witness ==
    /\ JustAnalyzed
    /\ fatal = ""
    /\ \E p \in InDoubtPages(bf) :
          /\ AllocRecs(log, master, p) # {}
          /\ \E i \in NamingRecs(log, master, p) : log[i].lsn < bf[p].rec_lsn
          /\ \E i \in NamingRecs(log, master, p) : log[i].lsn = bf[p].rec_lsn
    /\ \E q \in InDoubtPages(bf) :
          \E i \in NamingRecs(log, master, q) : is_multi_page(log[i]) /\ log[i].pid2 = q

\* ---- C16

\* the last LSNs the master checkpoint reports for transaction u
ListedLastLsns(l, m, u) ==
    {e.last_lsn : e \in {x \in UNION {l[i].xrec : i \in MasterXctTabs(l, m)} : x.tid = u}}

\* the LSN of the last scanned record of transaction u, or what the master
\* checkpoint lists as its last LSN when the scan holds no record of it
LastLsnOf(l, m, u) ==
    IF ScannedLsns(l, m, u) # {}
    THEN CHOOSE x \in ScannedLsns(l, m, u) : \A y \in ScannedLsns(l, m, u) : y <= x
    ELSE CHOOSE x \in ListedLastLsns(l, m, u) : TRUE

\* C16: every transaction that Analysis leaves active has first_lsn <=
\* last_lsn and undo_nxt <= last_lsn, and its last_lsn is the LSN of its last
\* scanned record, or the last_lsn of its checkpoint entry when no record of
\* it was scanned.
C16_XctLsnsOrdered ==
    (JustAnalyzed /\ fatal = "")
        => \A u \in Doomed(xct) :
              /\ xct[u].first_lsn <= xct[u].last_lsn
              /\ xct[u].undo_nxt <= xct[u].last_lsn
              /\ xct[u].last_lsn = LastLsnOf(log, master, u)

C16_Witness ==
    /\ JustAnalyzed
    /\ fatal = ""
    /\ \E u \in Doomed(xct) :
          /\ Cardinality(ScannedLsns(log, master, u)) >= 2
          /\ xct[u].undo_nxt = xct[u].last_lsn
    /\ \E v \in Doomed(xct) :
          /\ ScannedLsns(log, master, v) = {}
          /\ xct[v].last_lsn \in ListedLastLsns(log, master, v)

\* ---- C17

\* reverse UNDO is the next step
ReverseUndoReady ==
    /\ fatal = ""
    /\ cfg.undo_reverse
    /\ \/ cfg.serial /\ pc = "undo" /\ SomethingToUndo(xct_count)
       \/ ~cfg.serial /\ wpc = "undo"

\* the state reverse UNDO starts its loops with
UndoStart == [St EXCEPT !.heap = IF cfg.serial THEN heap ELSE Doomed(xct)]

\* the undo_nxt at the top of the heap before every turn of the rollback loop
\* and when the loop ends
RECURSIVE Tops(_)
Tops(s) ==
    LET t == s.xct[HeapFirst(s)].undo_nxt
    IN  IF t = NullLsn THEN <<t>> ELSE <<t>> \o Tops(RollbackFirst(s))

StrictlyDecreasing(q) == \A i \in 1..(Len(q) - 1) : q[i] > q[i + 1]

\* reverse UNDO has run
ReverseUndoDone == fatal = "" /\ cfg.undo_reverse /\ "undo" \in Range(trace)

\* C17: with two or more transactions in the heap the undo_nxt at the top of
\* the heap strictly decreases from turn to turn of the rollback loop, NULL
\* being the smallest, and the loop ends with every undo_nxt NULL; the pass
\* ends with an empty heap and with every doomed transaction aborted and
\* destroyed.
C17_ReverseUndoTerminates ==
    /\ (ReverseUndoReady /\ Cardinality(UndoStart.heap) >= 2)
          => /\ StrictlyDecreasing(Tops(UndoStart))
             /\ Tops(UndoStart)[Len(Tops(UndoStart))] = NullLsn
             /\ \A u \in UndoStart.heap : UndoInterleave(UndoStart).xct[u].undo_nxt = NullLsn
    /\ ReverseUndoReady
          => \E f \in {undo_reverse_pass(UndoStart, cfg.serial)} :
                /\ f.heap = {}
                /\ \A u \in UndoStart.heap :
                      /\ u \notin DOMAIN f.xct
                      /\ \E i \in 1..Len(f.log) :
                            f.log[i].type = "t_xct_abort" /\ f.log[i].tid = u
    /\ ReverseUndoDone => Doomed(xct) = {} /\ (cfg.serial => heap = {})

\* the transactions whose records UNDO has undone
UndoneTids == {LogAt(log, undone[i]).tid : i \in 1..Len(undone)}

C17_Witness ==
    /\ ReverseUndoDone
    /\ Cardinality(UndoneTids) >= 2
    /\ \A u \in UndoneTids : \E i \in 1..Len(log) : log[i].type = "t_xct_abort" /\ log[i].tid = u
    /\ xct = <<>>

\* ---- C18

\* C18: reverse UNDO undoes the records of the doomed transactions in
\* strictly decreasing LSN order, whatever the number of transactions in the
\* heap.
C18_ReverseUndoDescends ==
    (cfg.undo_reverse /\ fatal = "") => StrictlyDecreasing(undone)

C18_Witness ==
    /\ ReverseUndoDone
    /\ Len(undone) >= 3
    /\ LogAt(log, undone[1]).tid # LogAt(log, undone[2]).tid
    /\ LogAt(log, undone[2]).tid # LogAt(log, undone[3]).tid

\* ---- C19

\* the log the crash left: the records Log Analysis has seen
CrashLog == SubSeq(log, 1, Cardinality({i \in 1..Len(log) : log[i].lsn <= last_lsn}))

\* the transactions Log Analysis found doomed
FoundDoomed == Doomed(analysis_pass(CrashLog, master, use_serial_recovery(cfg)).xct)

\* the last record of transaction u in a log
LastRecOf(l, u) ==
    LET is == {i \in 1..Len(l) : l[i].tid = u}
    IN  l[CHOOSE i \in is : \A j \in is : j <= i]

\* the undoable records on the chain that starts at an LSN: a compensation
\* record leads to the record before the one it compensates, any other record
\* to the one the transaction wrote before it
RECURSIVE Uncompensated(_, _)
Uncompensated(l, lsn) ==
    IF lsn = NullLsn THEN {}
    ELSE LET r == LogAt(l, lsn)
         IN  (IF is_undo(r) THEN {lsn} ELSE {}) \cup Uncompensated(l, r.prev)

\* how often UNDO has undone the record at an LSN
TimesUndone(lsn) == Cardinality({i \in 1..Len(undone) : undone[i] = lsn})

\* C19: when recovery is done, reverse or transaction-driven UNDO has undone
\* exactly once every undoable update of a doomed transaction that was not
\* compensated before the crash, also when the last record of the
\* transaction is a compensation record for some of its updates.
C19_EveryUpdateUndoneOnce ==
    (Recovered /\ master # NullLsn /\ ~restarted)
        => \A u \in FoundDoomed :
              \A a \in Uncompensated(CrashLog, LastRecOf(CrashLog, u).lsn) : TimesUndone(a) = 1

\* ---- C20

\* transaction-driven UNDO has run
TxnUndoDone == fatal = "" /\ ~cfg.undo_reverse /\ wpc \in {"end", "done"}

\* C20: when transaction-driven UNDO has finished, the transaction table
\* holds no doomed transaction: one whose undo_nxt is NULL was destroyed like
\* the others.
C20_TxnUndoLeavesNoDoomed ==
    TxnUndoDone => Doomed(xct) = {}

\* ------------------------------------------------------------------ C21

\* the restart thread is about to run undo_concurrent
ConcurrentUndoReady ==
    /\ ~use_serial_recovery(cfg)
    /\ wpc = "undo"
    /\ fatal = ""

\* the UNDO pass that undo_concurrent selects, before its checkpoint
ConcurrentUndoPass ==
    IF cfg.undo_reverse THEN undo_reverse_pass([Phase(St, "undo") EXCEPT !.heap = {}], FALSE)
    ELSE undo_txn_pass(Phase(St, "undo"))

\* the whole log is on stable storage and the published commit_lsn is NULL
ForcedAndOpen(after) ==
    /\ after.commit_lsn = NullLsn
    /\ after.durable_lsn = CurrLsn(after.log)

\* C21: when concurrent UNDO has finished, the log has been forced and the
\* published commit_lsn is NULL, with the transaction-driven strategy on
\* every path through the pass and with the reverse strategy
C21_ConcurrentUndoOpensSystem ==
    /\ ConcurrentUndoReady => ForcedAndOpen(ConcurrentUndoPass)
    /\ (~use_serial_recovery(cfg) /\ wpc \in {"end", "done"} /\ fatal = "")
           => (sm.commit_lsn = NullLsn /\ durable_lsn = CurrLsn(log))

\* ------------------------------------------------------------------ C22

\* recover is about to run analysis_pass
AnalysisReady ==
    /\ pc = "analysis"
    /\ fatal = ""

\* what analysis_pass returns in this state
AnalysisResult == analysis_pass(log, master, use_serial_recovery(cfg))

\* C22: Analysis inserts no log record: the log and its end (curr_lsn) are
\* the same when analysis_pass returns as when it started, on every log and
\* on every return path
C22_AnalysisInsertsNoLog ==
    AnalysisReady =>
        /\ AnalysisResult.log = log
        /\ CurrLsn(AnalysisResult.log) = CurrLsn(log)

\* Analysis has run and mounted a device on its way
C22_Witness ==
    /\ JustAnalyzed
    /\ fatal = ""
    /\ mounted # {}
    /\ \E i \in 1..Len(log) : log[i].type = "t_dismount_vol"

\* ------------------------------------------------------------------ C23

\* serial recover is about to run log-driven REDO
SerialRedoReady ==
    /\ pc = "redo"
    /\ fatal = ""
    /\ in_doubt_count # 0

\* the restart thread is about to run redo_concurrent
ConcurrentRedoReady ==
    /\ ~use_serial_recovery(cfg)
    /\ wpc = "redo"
    /\ fatal = ""

\* the REDO pass that redo_concurrent selects, before its checkpoint
ConcurrentRedoPass ==
    IF cfg.redo_log
    THEN redo_log_pass(Phase(St, "redo"), log, sm.redo_lsn, CurrLsn(log), sm.in_doubt_count,
                       FALSE, TRUE)
    ELSE redo_page_pass(Phase(St, "redo"), sm.in_doubt_count)

LatchDiscipline(after) ==
    /\ after.bare = {}
    /\ after.held = {}

\* C24: log-driven REDO reads and changes a page only under the page's
\* exclusive latch, on every path through _redo_log_with_pid, the path of a
\* page with a bad checksum included, and holds no latch once it has returned
C24_RedoUnderExclusiveLatch ==
    /\ SerialRedoReady => LatchDiscipline(SerialRedo)
    /\ (ConcurrentRedoReady /\ cfg.redo_log) => LatchDiscipline(ConcurrentRedoPass)

\* ------------------------------------------------------------------ C25

\* the message of _redo_page_pass when the latch of a control block is taken
LatchConflict == "REDO (redo_page_pass()): unable to EX latch a buffer pool page "

\* page-driven REDO while user transactions hold the latches of the pages ul
PageRedoAgainst(ul) ==
    redo_page_pass([Phase(St, "redo") EXCEPT !.user_held = ul], sm.in_doubt_count)

\* C25: page-driven REDO latches only the control blocks that are in_doubt:
\* a user transaction that holds the latch of a page that is not in_doubt
\* while the restart thread walks the buffer pool never makes REDO fatal
C25_LatchConflictOnlyForInDoubt ==
    /\ (ConcurrentRedoReady /\ ~cfg.redo_log) =>
           \A ul \in SUBSET UserPages :
               ul \cap InDoubtPages(bf) = {} => PageRedoAgainst(ul).fatal # LatchConflict
    /\ (~cfg.redo_log /\ wpc = "fatal") => fatal # LatchConflict

\* ------------------------------------------------------------------ C26

\* no control block is in_doubt and dirty at once
FlagsExclusive(bfp) == \A q \in DOMAIN bfp : ~(bfp[q].in_doubt /\ bfp[q].dirty)

\* between two buffer pools of REDO a page keeps its flags or goes from
\* in_doubt to dirty
RedoFlagStep(b, a) ==
    /\ DOMAIN a = DOMAIN b
    /\ \A q \in DOMAIN b :
           \/ a[q].in_doubt = b[q].in_doubt /\ a[q].dirty = b[q].dirty
           \/ b[q].in_doubt /\ ~b[q].dirty /\ ~a[q].in_doubt /\ a[q].dirty

\* the buffer pools the scan of analysis_pass passes through, one after each
\* record from the master checkpoint on
AnalysisSteps(l, mst) ==
    LET max_lsn == CurrLsn(l) + 1
        m == MasterIdx(l, mst)
        s0 == [AutoTurnOffLogging([AnalysisStart EXCEPT !.log = l])
                  EXCEPT !.commit_lsn = max_lsn, !.theLastMountLSNBeforeChkpt = l[m].lsns[1]]
    IN  [k \in m..Len(l) |-> AnalysisScan(s0, SubSeq(l, 1, k), m + 1, mst, max_lsn).bf]

\* the buffer pools the scan of redo_log_pass passes through, one after each
\* record from redo_lsn on
RedoSteps(s, l, from, end_logscan_lsn, serial) ==
    [k \in (ScanIdx(l, from) - 1)..Len(l) |->
        RedoScan([s EXCEPT !.dirty_count = 0], SubSeq(l, 1, k), ScanIdx(l, from),
                 end_logscan_lsn, serial).bf]

\* every buffer pool of a sequence has exclusive flags and follows from the
\* one before it by a step of REDO
MonotoneFlags(steps) ==
    \A k \in DOMAIN steps :
        /\ FlagsExclusive(steps[k])
        /\ (k - 1) \in DOMAIN steps => RedoFlagStep(steps[k - 1], steps[k])

Holders == {t \in Threads : tpc[t] \in {"held", "store"}}

\* C27: tatas_lock gives mutual exclusion under every interleaving of
\* acquire, try_lock and release: no two threads hold the lock at once, and
\* a thread that holds the lock is its holder, so that the assertion
\* is_mine() at the start of release holds
C27_TatasMutualExclusion ==
    /\ Cardinality(Holders) <= 1
    /\ \A t \in Threads : tpc[t] = "held" => is_mine(t)

\* ------------------------------------------------------------------ C28

\* the positions of the records the scan of REDO hands to
\* _redo_log_with_pid for page p
ScannedFor(l, from, p) ==
    {i \in TouchesOf(l, p) : i >= ScanIdx(l, from) /\ ~null_pid(l[i])}

\* the record makes page p a virgin page
VirginFor(r, p) ==
    \/ r.type = "t_page_img_format"
    \/ r.type = "t_btree_norec_alloc" /\ p # r.pid

\* the last-write LSN of the disk image of a page, null for a page that is
\* not on disk
OnDiskLsn(dsk, p) == IF p \in DOMAIN dsk THEN dsk[p].lsn ELSE NullLsn

\* the LSNs REDO applied to page p, in the order it applied them
AppliedTo(after, p) ==
    LET is == {i \in 1..Len(after.applied) : after.applied[i].pid = p}
    IN  [k \in 1..Cardinality(is) |->
            after.applied[CHOOSE i \in is : Cardinality({j \in is : j <= i}) = k].lsn]

\* a sequence of LSNs is strictly increasing
Increasing(q) == \A i, j \in 1..Len(q) : i < j => q[i] < q[j]

\* the scanned records of page p above the LSN of its disk image
AboveDisk(l, from, dsk, p) ==
    {l[i].lsn : i \in {j \in ScannedFor(l, from, p) : l[j].lsn > OnDiskLsn(dsk, p)}}

\* the scanned records of page p above the LSN of its disk image, and those
\* from the first record on that makes the page virgin
AboveDiskOrFormatted(l, from, dsk, p) ==
    AboveDisk(l, from, dsk, p)
    \cup {l[i].lsn : i \in {j \in ScannedFor(l, from, p) :
                                \E f \in ScannedFor(l, from, p) :
                                    f <= j /\ VirginFor(l[f], p)}}

\* log-driven REDO returned normally and the disk images it read were sound
RedoRanClean(after) ==
    /\ after.fatal = ""
    /\ \A p \in DOMAIN disk : ~disk[p].bad

\* what REDO applied to every page is the set expect(p), each record once,
\* in increasing LSN order
AppliedExactly(after, expect(_)) ==
    \A p \in PagesOf(log) \cup DOMAIN after.bf :
        /\ Increasing(AppliedTo(after, p))
        /\ Range(AppliedTo(after, p)) = expect(p)

CountMismatch == "Unexpected dirty page count at the end of REDO phase"

\* the pages a REDO pass took from in_doubt to dirty
MadeDirty(before, after) ==
    {q \in InDoubtPages(before) : q \in DOMAIN after /\ after[q].dirty /\ ~after[q].in_doubt}

\* what a log-driven REDO that was given idc in_doubt pages has to leave:
\* after a normal return idc pages went from in_doubt to dirty and none is
\* in_doubt, and a scan that ends with another count is a fatal error
CountsAgree(scanned, after, idc) ==
    /\ after.fatal = "" =>
           /\ Cardinality(MadeDirty(bf, after.bf)) = idc
           /\ after.dirty_count = idc
           /\ InDoubtPages(after.bf) = {}
    /\ (scanned.fatal = "" /\ scanned.dirty_count # idc) => after.fatal = CountMismatch

\* C29: whenever log-driven REDO returns normally it made as many in_doubt to
\* dirty transitions as Analysis counted in_doubt pages and no control block
\* is in_doubt any more; a scan that ends with another count is fatal
C29_DirtyCountIsInDoubtCount ==
    /\ SerialRedoReady =>
           CountsAgree(RedoWithoutCount(Phase(St, "redo"), log, redo_lsn, CurrLsn(log),
                                        in_doubt_count, TRUE, cfg.redo_log),
                       SerialRedo, in_doubt_count)
    /\ (ConcurrentRedoReady /\ cfg.redo_log /\ sm.in_doubt_count # 0) =>
           CountsAgree(RedoWithoutCount(Phase(St, "redo"), log, sm.redo_lsn, CurrLsn(log),
                                        sm.in_doubt_count, FALSE, TRUE),
                       ConcurrentRedoPass, sm.in_doubt_count)
    /\ (use_serial_recovery(cfg) /\ pc = "undo") => InDoubtPages(bf) = {}
    /\ (cfg.redo_log /\ wpc = "undo") => InDoubtPages(bf) = {}

\* serial REDO returned normally after it made two in_doubt pages dirty
C29_Witness ==
    /\ SerialRedoReady
    /\ in_doubt_count >= 2
    /\ SerialRedo.fatal = ""
    /\ Cardinality(MadeDirty(bf, SerialRedo.bf)) = in_doubt_count

\* ------------------------------------------------------------------ C30

\* _redo_log_with_pid returned from a call on a control block that was in the
\* hash table with neither flag set; the call does not change such a block
CalledOnCleanCb ==
    /\ pc = "redone"
    /\ ~bf[1].in_doubt
    /\ ~bf[1].dirty

PageNotFound == "Unable to find page in buffer pool hashtable during REDO phase"

\* the pages a record hands to _redo_log_with_pid
PidsOf(r) ==
    IF ~is_redo(r) \/ null_pid(r) THEN {}
    ELSE IF is_multi_page(r) THEN {r.pid, r.pid2} ELSE {r.pid}

\* on the records from redo_lsn on whose page is not in the hash table, a
\* call of _redo_log_with_pid changes nothing for a deallocation record and
\* is fatal for any other record
NotFoundRule(s, l, from) ==
    \A i \in ScanIdx(l, from)..Len(l) :
        \A p \in PidsOf(l[i]) \ DOMAIN s.bf :
            redo_log_with_pid(s, l[i], p, CurrLsn(l)) =
                (IF is_page_deallocate(l[i]) THEN s ELSE Fatal(s, PageNotFound))

\* C31: a record whose page is not in the hash table is skipped without
\* effect if it is a page-deallocation record and ends REDO in a fatal error
\* otherwise, and on the logs a correct system writes, an allocation record
\* for a page that Analysis never registered included, REDO never ends in
\* that fatal error
C31_NotFoundFatalUnreached ==
    /\ SerialRedoReady =>
           /\ NotFoundRule(Phase(St, "redo"), log, redo_lsn)
           /\ SerialRedo.fatal # PageNotFound
    /\ (ConcurrentRedoReady /\ cfg.redo_log /\ sm.in_doubt_count # 0) =>
           /\ NotFoundRule(Phase(St, "redo"), log, sm.redo_lsn)
           /\ ConcurrentRedoPass.fatal # PageNotFound
    /\ fatal # PageNotFound

\* ------------------------------------------------------------------ C32

\* the message of _redo_log_with_pid when the page it has to load is past the
\* end of the volume
PastEnd == "REDO phase, expected page does not exist on disk"

\* the first record the scan hands to _redo_log_with_pid for each in_doubt
\* page that is not on disk makes the page virgin
VirginFirst(l, from, bfp, dsk) ==
    \A p \in InDoubtPages(bfp) \ DOMAIN dsk :
        ScannedFor(l, from, p) # {} => VirginFor(l[SetMin(ScannedFor(l, from, p))], p)

\* C32: for every in_doubt page that is not on disk the first redoable
\* record of the page that the scan of log-driven REDO meets makes the page
\* virgin (a page format, or a btree_norec_alloc for its second page), so
\* that REDO never ends in the fatal error of a page past the end of the
\* file, a log whose allocation record precedes the format record included
C32_PastEndUnreached ==
    /\ SerialRedoReady =>
           /\ VirginFirst(log, redo_lsn, bf, disk)
           /\ SerialRedo.fatal # PastEnd
    /\ (ConcurrentRedoReady /\ cfg.redo_log /\ sm.in_doubt_count # 0) =>
           /\ VirginFirst(log, sm.redo_lsn, bf, disk)
           /\ ConcurrentRedoPass.fatal # PastEnd
    /\ fatal # PastEnd

\* ------------------------------------------------------------------ C33

\* the virgin-page scenario: the log holds a format of page 99 at LSN 100 and
\* the page never existed on disk
VirginScenario ==
    /\ log = VirginLog
    /\ 99 \notin DOMAIN crash_disk

\* REDO returned normally and left page 99 dirty, formatted at LSN 100
FormatApplied(after) ==
    /\ after.fatal = ""
    /\ after.bf[99].dirty
    /\ ~after.bf[99].in_doubt
    /\ after.bf[99].page_lsn = 100
    /\ after.bf[99].rec_lsn = 100

\* C33 as stated: in scenario S4 REDO loads page 99, finds it past the end
\* of the file and treats it as virgin, applies the format and leaves the
\* page dirty with page LSN 100 and rec_lsn 100, without a fatal error
C33_S4_LoadsAndFormats ==
    /\ (VirginScenario /\ SerialRedoReady) =>
           /\ FormatApplied(SerialRedo)
           /\ 99 \in SerialRedo.loads
    /\ (VirginScenario /\ ConcurrentRedoReady) =>
           /\ FormatApplied(ConcurrentRedoPass)
           /\ 99 \in ConcurrentRedoPass.loads

\* C33, amended: in scenario S4 REDO applies the format and leaves page 99
\* dirty with page LSN 100 and rec_lsn 100, without a fatal error; log-driven
\* REDO takes the page for virgin from the type of the record and does not
\* load it, page-driven REDO loads it and takes it for virgin because the
\* load ends past the end of the file
C33_S4_FormatsVirginPage ==
    /\ (VirginScenario /\ SerialRedoReady) =>
           /\ FormatApplied(SerialRedo)
           /\ 99 \notin SerialRedo.loads
    /\ (VirginScenario /\ ConcurrentRedoReady) =>
           /\ FormatApplied(ConcurrentRedoPass)
           /\ 99 \in ConcurrentRedoPass.loads <=> ~cfg.redo_log
    /\ (VirginScenario /\ fatal = "" /\ pc = "undo") =>
           /\ 99 \in DOMAIN disk
           /\ disk[99].lsn = 100

\* serial REDO ran on the scenario and the flush after it wrote the
\* formatted page
C33_Witness ==
    /\ VirginScenario
    /\ use_serial_recovery(cfg)
    /\ pc = "undo"
    /\ fatal = ""
    /\ 99 \in DOMAIN bf
    /\ bf[99].page_lsn = 100
    /\ bf[99].rec_lsn = 100
    /\ disk[99].lsn = 100

\* ------------------------------------------------------------------ C34

\* the state of analysis_pass after the scan took the records up to the
\* k-th one of the log, k from the master checkpoint on
AnalysisAfter(l, mst, k) ==
    LET max_lsn == CurrLsn(l) + 1
        m == MasterIdx(l, mst)
        s0 == [AutoTurnOffLogging([AnalysisStart EXCEPT !.log = l])
                  EXCEPT !.commit_lsn = max_lsn, !.theLastMountLSNBeforeChkpt = l[m].lsns[1]]
    IN  AnalysisScan(s0, SubSeq(l, 1, k), m + 1, mst, max_lsn)

\* the multi-page scenario: btree_norec_alloc at LSN 300 on page 1 and its
\* new foster child page 2; page 1 is on disk, page 2 is not
NorecAllocScenario ==
    /\ log = NorecAllocLog
    /\ DOMAIN crash_disk = {1}
    /\ crash_disk[1].lsn < 300
    /\ ~crash_disk[1].bad

\* both pages are in_doubt with rec_lsn 300 and are the two pages counted
BothInDoubt(bfp, idc) ==
    /\ InDoubtPages(bfp) = {1, 2}
    /\ bfp[1].rec_lsn = 300
    /\ bfp[2].rec_lsn = 300
    /\ idc = 2

\* log-driven REDO applied the record to page 1 and then to page 2, loaded
\* page 1 only, and left both pages dirty with page LSN 300
DestThenNewPage(after) ==
    /\ after.fatal = ""
    /\ after.applied = <<[pid |-> 1, lsn |-> 300], [pid |-> 2, lsn |-> 300]>>
    /\ after.loads = {1}
    /\ \A p \in {1, 2} : /\ after.bf[p].dirty
                         /\ ~after.bf[p].in_doubt
                         /\ after.bf[p].page_lsn = 300

\* C34: in scenario S5 Analysis marks page 1 and page 2 in_doubt with
\* rec_lsn 300, which raises in_doubt_count by two, and log-driven REDO
\* applies the record to page 1 first and then to page 2, takes only page 2
\* for a virgin page, and leaves both pages dirty with page LSN 300
C34_S5_BothPagesRedone ==
    /\ (NorecAllocScenario /\ AnalysisReady) =>
           /\ AnalysisAfter(log, master, Len(log) - 1).in_doubt_count = 0
           /\ AnalysisResult.fatal = ""
           /\ BothInDoubt(AnalysisResult.bf, AnalysisResult.in_doubt_count)
    /\ (NorecAllocScenario /\ SerialRedoReady) =>
           /\ BothInDoubt(bf, in_doubt_count)
           /\ DestThenNewPage(SerialRedo)
    /\ (NorecAllocScenario /\ ConcurrentRedoReady /\ cfg.redo_log) =>
           /\ BothInDoubt(bf, sm.in_doubt_count)
           /\ DestThenNewPage(ConcurrentRedoPass)

\* serial REDO ran on the scenario and the flush after it wrote both pages
C34_Witness ==
    /\ NorecAllocScenario
    /\ use_serial_recovery(cfg)
    /\ pc = "undo"
    /\ fatal = ""
    /\ in_doubt_count = 2
    /\ \A p \in {1, 2} : /\ bf[p].page_lsn = 300
                         /\ disk[p].lsn = 300

\* ------------------------------------------------------------------ C35

\* min_rec_lsn of the end record of the master checkpoint
MasterMinRecLsn(l, mst) ==
    LET es == {i \in MasterIdx(l, mst)..Len(l) : l[i].type = "t_chkpt_end"}
    IN  l[SetMin(es)].lsns[2]

\* the rec_lsn of the in_doubt pages of a buffer pool
RecLsnsOf(bfp) == {bfp[p].rec_lsn : p \in InDoubtPages(bfp)}

\* redo_lsn is not above the master LSN nor above the rec_lsn of an in_doubt
\* page
RedoLsnCovers(lsn, mst, bfp) ==
    /\ lsn <= mst
    /\ \A x \in RecLsnsOf(bfp) : lsn <= x

\* analysis_pass is about to run on a log with a master checkpoint and will
\* return normally
AnalysisReturns ==
    /\ AnalysisReady
    /\ master # NullLsn
    /\ AnalysisResult.fatal = ""

\* C35 as stated: the redo_lsn Analysis returns is the minimum of the
\* begin-checkpoint LSN and the rec_lsn of all in_doubt pages
C35_RedoLsnIsMinimum ==
    AnalysisReturns =>
        AnalysisResult.redo_lsn = SetMin({master} \cup RecLsnsOf(AnalysisResult.bf))

\* C35, amended: the redo_lsn Analysis returns is the lesser of the
\* min_rec_lsn of the master checkpoint's end record and the master LSN; it
\* is never above the master LSN and never above the rec_lsn of a page left
\* in_doubt, so the scan of REDO starts at or before the first record that
\* may have dirtied an in_doubt page
C35_RedoLsnCoversInDoubt ==
    /\ AnalysisReturns =>
           /\ AnalysisResult.redo_lsn = Min(MasterMinRecLsn(log, master), master)
           /\ RedoLsnCovers(AnalysisResult.redo_lsn, master, AnalysisResult.bf)
    /\ SerialRedoReady =>
           /\ RedoLsnCovers(redo_lsn, master, bf)
           /\ \A p \in InDoubtPages(bf) : log[ScanIdx(log, redo_lsn)].lsn <= bf[p].rec_lsn
    /\ (ConcurrentRedoReady /\ sm.in_doubt_count # 0) => RedoLsnCovers(sm.redo_lsn, master, bf)

\* Analysis returned a redo_lsn below the master LSN and below the rec_lsn of
\* every page it left in_doubt
C35_Witness ==
    /\ JustAnalyzed
    /\ fatal = ""
    /\ InDoubtPages(bf) # {}
    /\ redo_lsn # NullLsn
    /\ redo_lsn < master
    /\ \A x \in RecLsnsOf(bf) : redo_lsn < x

\* ------------------------------------------------------------------ C36

UndoableCpsn == "Encounter undoable compensation record in Recovery log"

\* the positions after the master checkpoint's begin record of the
\* compensation records of transactions
CpsnIdx(l, mst) ==
    {k \in (MasterIdx(l, mst) + 1)..Len(l) :
        is_cpsn(l[k]) /\ ~is_single_sys_xct(l[k]) /\ l[k].type \in UpdateTypes}

\* what the scan did with the compensation record r: entered is the state
\* with the transaction of r in the table, after is the state after r
CpsnHandled(before, entered, after, r) ==
    IF is_undo(r)
    THEN /\ after.fatal = UndoableCpsn
         /\ after.xct[r.tid].undo_nxt = entered.xct[r.tid].undo_nxt
         /\ after.bf = before.bf
         /\ after.in_doubt_count = before.in_doubt_count
    ELSE /\ after.fatal = ""
         /\ after.xct[r.tid].undo_nxt = NullLsn
         /\ IF is_redo(r)
            THEN /\ r.pid \in DOMAIN after.bf
                 /\ after.bf[r.pid].in_doubt
                 /\ after.bf[r.pid].rec_lsn <= r.lsn
                 /\ after.in_doubt_count = Cardinality(InDoubtPages(after.bf))
            ELSE /\ after.bf = before.bf
                 /\ after.in_doubt_count = before.in_doubt_count

\* C36: when Analysis scans a compensation record it sets undo_nxt of the
\* transaction to null and registers the page of a redoable record as
\* in_doubt; a compensation record flagged undoable ends Analysis in a fatal
\* error with undo_nxt of the transaction as it was; UNDO undoes no
\* compensation record.
C36_CompensationRedoOnly ==
    /\ (AnalysisReady /\ master # NullLsn) =>
           \A k \in CpsnIdx(log, master) :
               AnalysisAfter(log, master, k - 1).fatal = "" =>
                   CpsnHandled(AnalysisAfter(log, master, k - 1),
                               AnalysisXct(AnalysisAfter(log, master, k - 1), log[k],
                                           CurrLsn(log) + 1),
                               AnalysisAfter(log, master, k), log[k])
    /\ (JustAnalyzed /\ UndoableCpsn \in {AnalysisAfter(log, master, k).fatal : k \in CpsnIdx(log, master)})
           => fatal = UndoableCpsn
    /\ \A i \in 1..Len(undone) : ~is_cpsn(LogAt(log, undone[i]))

\* UNDO has rolled back a transaction whose redoable compensation record
\* Analysis scanned: an older record of the transaction was undone, the
\* compensation record was not
C36_Witness ==
    /\ fatal = ""
    /\ \E k \in CpsnIdx(log, master) :
           /\ ~is_undo(log[k])
           /\ is_redo(log[k])
           /\ log[k].lsn \notin {undone[i] : i \in 1..Len(undone)}
           /\ \E i \in 1..Len(undone) :
                  /\ undone[i] < log[k].lsn
                  /\ LogAt(log, undone[i]).tid = log[k].tid

\* ------------------------------------------------------------------ C37

\* the positions of the records the scan of Analysis takes
ScannedIdx(l, mst) == (MasterIdx(l, mst) + 1)..Len(l)

\* in_doubt_count is the number of control blocks with the in_doubt flag
CountIsInDoubt(s) ==
    /\ s.in_doubt_count = Cardinality(InDoubtPages(s.bf))
    /\ s.in_doubt_count >= 0

\* an allocation or deallocation record r takes one off the count when its
\* page was in_doubt and leaves the count alone otherwise
AllocCounted(before, after, r) ==
    IF r.pid \in InDoubtPages(before.bf)
    THEN /\ after.in_doubt_count = before.in_doubt_count - 1
         /\ r.pid \notin InDoubtPages(after.bf)
    ELSE /\ after.in_doubt_count = before.in_doubt_count
         /\ InDoubtPages(after.bf) = InDoubtPages(before.bf)

\* the pages a record of the scan names: those of its entries for the buffer
\* table of a checkpoint
NamedPages(r) ==
    IF r.type = "t_chkpt_bf_tab" THEN {e.pid : e \in r.brec} ELSE PidsOf(r)

\* a record that is not an allocation counts the pages it makes in_doubt, each
\* once, and no page that is in_doubt already
RegisterCounted(before, after, r) ==
    after.fatal = "" =>
        /\ after.in_doubt_count
               = before.in_doubt_count
                 + Cardinality(InDoubtPages(after.bf) \ InDoubtPages(before.bf))
        /\ InDoubtPages(before.bf) \subseteq InDoubtPages(after.bf)
        /\ InDoubtPages(after.bf) \subseteq InDoubtPages(before.bf) \cup NamedPages(r)
        /\ NamedPages(r) \subseteq InDoubtPages(before.bf)
               => after.in_doubt_count = before.in_doubt_count

\* C37: after every record Analysis has processed, in_doubt_count is the
\* number of control blocks whose in_doubt flag is set and is not negative: a
\* page that is in_doubt already is not counted twice, an allocation or
\* deallocation record takes one off only when its page was in_doubt, and a
\* page cleared by an allocation record and registered again is counted once.
C37_InDoubtCountExact ==
    /\ (AnalysisReady /\ master # NullLsn) =>
           /\ CountIsInDoubt(AnalysisAfter(log, master, MasterIdx(log, master)))
           /\ \A k \in ScannedIdx(log, master) :
                  /\ CountIsInDoubt(AnalysisAfter(log, master, k))
                  /\ AnalysisAfter(log, master, k - 1).fatal = "" =>
                         IF is_page_allocate(log[k]) \/ is_page_deallocate(log[k])
                         THEN AllocCounted(AnalysisAfter(log, master, k - 1),
                                           AnalysisAfter(log, master, k), log[k])
                         ELSE RegisterCounted(AnalysisAfter(log, master, k - 1),
                                              AnalysisAfter(log, master, k), log[k])
    /\ JustAnalyzed => in_doubt_count = Cardinality(InDoubtPages(bf))

\* Analysis has returned on a log in which an allocation record cleared a
\* page that was in_doubt and a later record registered the page again: the
\* page is in_doubt and counted once
C37_Witness ==
    /\ JustAnalyzed
    /\ fatal = ""
    /\ \E k \in ScannedIdx(log, master) :
           /\ is_page_allocate(log[k])
           /\ log[k].pid \in InDoubtPages(AnalysisAfter(log, master, k - 1).bf)
           /\ log[k].pid \notin InDoubtPages(AnalysisAfter(log, master, k).bf)
           /\ log[k].pid \in InDoubtPages(bf)
    /\ in_doubt_count = 1

\* ------------------------------------------------------------------ C38

NotDoomed == "Transaction in the traction table is not doomed in Log Analysis phase"

\* the positions of the records of the master checkpoint: from its begin
\* record to its end record
MasterChkptIdx(l, mst) ==
    {k \in ScannedIdx(l, mst) :
        \A j \in ScannedIdx(l, mst) : l[j].type = "t_chkpt_end" => k <= j}

\* the transactions the scanned log knows: those of its records and those the
\* transaction table of the master checkpoint lists as not ended
SeenTids(l, mst) ==
    {l[k].tid : k \in {j \in ScannedIdx(l, mst) :
                          /\ l[j].tid # NullTid
                          /\ ~is_single_sys_xct(l[j])
                          /\ l[j].type \notin {"t_comment", "t_skip", "t_max_logrec"}}}
    \cup UNION {{e.tid : e \in {x \in l[k].xrec : x.state # "xct_ended"}} :
                   k \in {j \in MasterChkptIdx(l, mst) : l[j].type = "t_chkpt_xct_tab"}}

\* the transactions the scanned log ends
EndedTids(l, mst) ==
    {l[k].tid : k \in {j \in ScannedIdx(l, mst) :
                          l[j].type \in {"t_xct_end", "t_xct_abort", "t_xct_freeing_space"}}}
    \cup UNION {{e.tid : e \in l[k].xrec} :
                   k \in {j \in ScannedIdx(l, mst) : l[j].type = "t_xct_end_group"}}

\* the table and the heap Analysis leaves: pre is the state at the end of the
\* scan, a the state analysis_pass returns
SweptTable(pre, a, l, mst, serial) ==
    /\ DOMAIN a.xct = SeenTids(l, mst) \ EndedTids(l, mst)
    /\ \A u \in DOMAIN a.xct :
           /\ a.xct[u].state = "xct_active"
           /\ a.xct[u].doomed
           /\ a.xct[u].first_lsn = NullLsn
    /\ \A u \in DOMAIN pre.xct :
           /\ pre.xct[u].state \in {"xct_active", "xct_ended"}
           /\ pre.xct[u].state = "xct_ended" => u \notin DOMAIN a.xct
           /\ pre.xct[u].single_sys => pre.xct[u].state = "xct_ended"
    /\ \A k \in ScannedIdx(l, mst) :
           is_single_sys_xct(l[k]) => \E u \in DOMAIN pre.xct : pre.xct[u].single_sys /\ pre.xct[u].last_lsn = l[k].lsn
    /\ a.heap = IF serial THEN DOMAIN a.xct ELSE {}

\* the sweep of a table in which the transaction u is in another state
SweepOfOtherState(pre, u, serial, max_lsn) ==
    AnalysisSweep([pre EXCEPT !.xct[u].state = "xct_aborting"], serial, max_lsn)

\* C38: when Analysis returns normally the transaction table holds exactly the
\* transactions the scanned log does not end, each active, doomed and with a
\* null first_lsn; the ended transactions and the system transactions of
\* single records are destroyed; a transaction in another state makes the
\* sweep fatal; the heap holds these transactions in serial mode and is empty
\* in concurrent mode.
C38_SweepLeavesLosers ==
    /\ AnalysisReturns =>
           /\ SweptTable(AnalysisAfter(log, master, Len(log)), AnalysisResult, log, master,
                         use_serial_recovery(cfg))
           /\ \A u \in DOMAIN AnalysisAfter(log, master, Len(log)).xct :
                  SweepOfOtherState(AnalysisAfter(log, master, Len(log)), u,
                                    use_serial_recovery(cfg), CurrLsn(log) + 1).fatal = NotDoomed
    /\ (JustAnalyzed /\ fatal = "" /\ master # NullLsn) =>
           /\ DOMAIN xct = SeenTids(log, master) \ EndedTids(log, master)
           /\ heap = IF use_serial_recovery(cfg) THEN DOMAIN xct ELSE {}

\* serial Analysis has returned on a log with a transaction that ended, a
\* system transaction and a transaction that did not end: the last one alone
\* is in the table and in the heap
C38_Witness ==
    /\ JustAnalyzed
    /\ fatal = ""
    /\ use_serial_recovery(cfg)
    /\ EndedTids(log, master) # {}
    /\ \E k \in ScannedIdx(log, master) : is_single_sys_xct(log[k])
    /\ DOMAIN xct # {}
    /\ heap = DOMAIN xct
    /\ DOMAIN xct = SeenTids(log, master) \ EndedTids(log, master)

\* ------------------------------------------------------------------ C39

\* the entries <<j, u>> of the master checkpoint's transaction table, at
\* position j of the log, that list as not ended a transaction u whose end or
\* abort record the scan has taken before
RacedEntries(l, mst) ==
    {x \in {i \in MasterChkptIdx(l, mst) : l[i].type = "t_chkpt_xct_tab"}
            \X {l[k].tid : k \in 1..Len(l)} :
        /\ \E e \in l[x[1]].xrec : e.tid = x[2] /\ e.state # "xct_ended"
        /\ \E k \in ScannedIdx(l, mst) :
               /\ k < x[1]
               /\ l[k].type \in {"t_xct_end", "t_xct_abort"}
               /\ l[k].tid = x[2]}

\* the log without the entry of u in the table at position j
WithoutEntry(l, j, u) == [l EXCEPT ![j].xrec = {e \in @ : e.tid # u}]

\* the scan skipped the entry of u: u was in the table, ended, and the record
\* of the checkpoint left it as it was
EntrySkipped(pre, post, u) ==
    /\ u \in DOMAIN pre.xct
    /\ pre.xct[u].state = "xct_ended"
    /\ u \in DOMAIN post.xct
    /\ post.xct[u] = pre.xct[u]

\* a is what Analysis returns, b what it returns on the log without the entry
NotResurrected(a, b, u) ==
    /\ u \notin DOMAIN a.xct
    /\ u \notin a.heap
    /\ a.xct = b.xct
    /\ a.commit_lsn = b.commit_lsn

\* C39: a transaction whose end or abort record the scan takes before the
\* transaction table of the master checkpoint that still lists it as not
\* ended is not resurrected: the entry is skipped because the transaction is
\* in the table already, ended; after Analysis it is not in the table, not
\* doomed, and commit_lsn is what it is without the entry.
C39_RacedEntrySkipped ==
    /\ (AnalysisReady /\ master # NullLsn) =>
           \A x \in RacedEntries(log, master) :
               /\ AnalysisAfter(log, master, x[1] - 1).fatal = "" =>
                      EntrySkipped(AnalysisAfter(log, master, x[1] - 1),
                                   AnalysisAfter(log, master, x[1]), x[2])
               /\ AnalysisResult.fatal = "" =>
                      NotResurrected(AnalysisResult,
                                     analysis_pass(WithoutEntry(log, x[1], x[2]), master,
                                                   use_serial_recovery(cfg)),
                                     x[2])
    /\ (AnalysisReady /\ log \in RaceLogs) =>
           /\ RacedEntries(log, master) = {<<6, 1>>}
           /\ AnalysisResult.fatal = ""
           /\ AnalysisResult.commit_lsn = 7
    /\ (JustAnalyzed /\ log \in RaceLogs /\ fatal = "") =>
           /\ DOMAIN xct = {2}
           /\ xct[2].doomed

\* Analysis has returned on the log of the race: T1, ended before the table
\* that lists it, is gone; T2 is the one doomed transaction
C39_Witness ==
    /\ JustAnalyzed
    /\ log \in RaceLogs
    /\ RacedEntries(log, master) # {}
    /\ fatal = ""
    /\ DOMAIN xct = {2}
    /\ xct[2].state = "xct_active"

\* ------------------------------------------------------------------ C40

\* the transactions of a table that have ended
EndedIn(s) == {u \in DOMAIN s.xct : s.xct[u].state = "xct_ended"}

\* the positions of the scan at which the record is one of a transaction that
\* has ended before, or the master checkpoint's table with an entry of one
MeetsEnded(l, mst) ==
    {k \in ScannedIdx(l, mst) :
        \/ l[k].tid \in EndedIn(AnalysisAfter(l, mst, k - 1))
        \/ /\ l[k].type \in {"t_chkpt_xct_tab", "t_xct_end_group"}
           /\ \E e \in l[k].xrec : e.tid \in EndedIn(AnalysisAfter(l, mst, k - 1))}

\* C40: during Analysis a transaction that has reached the state ended stays
\* ended and in the table whatever record follows (update, compensation,
\* freeing space, end, abort, end group, or an entry of the checkpoint's
\* transaction table), until the sweep at the end destroys it.
C40_EndedIsFinal ==
    /\ (AnalysisReady /\ master # NullLsn) =>
           /\ \A k \in ScannedIdx(log, master) :
                  AnalysisAfter(log, master, k - 1).fatal = "" =>
                      EndedIn(AnalysisAfter(log, master, k - 1))
                          \subseteq EndedIn(AnalysisAfter(log, master, k))
           /\ AnalysisResult.fatal = "" =>
                  /\ EndedIn(AnalysisAfter(log, master, Len(log))) \cap DOMAIN AnalysisResult.xct = {}
                  /\ EndedIn(AnalysisResult) = {}
    /\ (AnalysisReady /\ log \in AfterEndLogs) =>
           /\ MeetsEnded(log, master) = {Len(log)}
           /\ EndedIn(AnalysisAfter(log, master, Len(log))) = {1}
           /\ AnalysisResult.fatal = ""
           /\ DOMAIN AnalysisResult.xct = {2}

\* Analysis has returned on a log in which a record of T1 follows the record
\* that ended T1: T1 is gone, T2 is the one doomed transaction
C40_Witness ==
    /\ JustAnalyzed
    /\ log \in AfterEndLogs
    /\ MeetsEnded(log, master) # {}
    /\ fatal = ""
    /\ DOMAIN xct = {2}
====
